---------------------------- MODULE Spec2Model ----------------------------
(***************************************************************************)
(* Session orchestration core of stata-mcp.                                *)
(*                                                                         *)
(*   Spec        the SessionManager (src/src/session_manager.py) under     *)
(*               clients that execute, read data and stop: routing,        *)
(*               auto-create, spillover, _execute_command, with one worker *)
(*               process per Session object.  API calls run on concurrent  *)
(*               threads; every lock block and every unlocked read or      *)
(*               write of a Session field is one step.                     *)
(*   LifeSpec    the same manager under clients that create and destroy    *)
(*               sessions, with the cleanup pass and worker deaths.        *)
(*   WorkerSpec  one worker process (src/src/stata_worker.py) at statement *)
(*               granularity: the main command loop and the stop monitor   *)
(*               thread interleave on worker_state, cancelled,             *)
(*               stop_already_sent and the stop event.                     *)
(*   ReclaimSpec the manager under clients that execute while the cleanup  *)
(*               thread reclaims idle sessions through destroy_session.    *)
(*   DisabledSpec the manager constructed with enabled = False, under      *)
(*               clients that execute.                                     *)
(*   LockSpec    the registry lock: every API path as its sequence of      *)
(*               lock entries and exits, session writes and IPC waits.     *)
(*   StreamSpec  the MCP streaming wrapper of stata_run_file               *)
(*               (src/src/stata_mcp_server.py, execute_with_streaming):    *)
(*               the polling loop beside the task that runs the tool.      *)
(*   CycleSpec   one worker process from CREATED to STOPPED: engine        *)
(*               initialization, the command loop with EXECUTE,            *)
(*               EXECUTE_FILE, GET_DATA (with its preserve / keep if /     *)
(*               restore sequence) and EXIT, and the engine's dataset.     *)
(*   ArgsSpec    what execute and execute_file make of their arguments:    *)
(*               join_stata_line_continuations over the lines of the code, *)
(*               "timeout or self.command_timeout", the command put on the *)
(*               queue and the deadline of the wait.                       *)
(*   WaitSpec    one _execute_command call against a clock: the health     *)
(*               check, the put, and the wait loop whose reads of the      *)
(*               result queue time out after min(remaining, 1.0) seconds,  *)
(*               beside a worker that answers, answers with other ids,     *)
(*               stays silent or dies.                                     *)
(***************************************************************************)
EXTENDS Integers, Sequences, FiniteSets, TLC

(***************************************************************************)
(* Bounds of the model and configuration.                                  *)
(***************************************************************************)
\* Session objects ever constructed (the default session included).
MaxObjs == 3
\* Commands the manager ever sends (uuid command ids c1, c2, ...).
MaxCmds == 2
\* Largest observation count an EXECUTE may set in an engine.
MaxObs == 1
\* stop_execution calls.
MaxStops == 2
\* create_session / destroy_session calls and cleanup passes (LifeSpec).
MaxCalls == 3
\* Sessions the cleanup thread looks at (ReclaimSpec).
MaxPasses == 1
\* Polls of the streaming wrapper's loop (StreamSpec).
MaxPolls == 6
\* Chunks of output the engine writes to its log file (StreamSpec).
MaxLog == 3
\* Lines of the code passed to execute (ArgsSpec).
MaxLines == 3
\* Commands put on one worker's queue (CycleSpec).
MaxWkCmds == 3
\* Largest number of observations in the engine's dataset (CycleSpec).
MaxRows == 2
\* Largest absolute value of a timeout argument, in seconds (ArgsSpec).
MaxTimeout == 2
\* EXECUTE commands one worker receives (WorkerSpec).
MaxExecs == 2
\* Clock ticks in one second (WaitSpec).
TicksPerSec == 2
\* Times the stop event is set (WorkerSpec).
MaxSignals == 2
\* SessionManager(max_sessions=2), as in test_session_limit_enforcement.
max_sessions == 2

\* The threads that run API calls (interchangeable: see MayCall).
Threads == {1, 2}
DEFAULT_SESSION_ID == "default"
\* Session ids a client passes explicitly.
ClientIds == {"A"}
\* str(uuid.uuid4())[:8] values, in the order they are drawn.
GenNames == <<"g1", "g2", "g3", "g4", "g5">>
CmdNames == <<"c1", "c2", "c3", "c4", "c5">>
GenIds == {GenNames[i] : i \in 1..(MaxObjs + 1)}
SessionIds == {DEFAULT_SESSION_ID} \cup ClientIds \cup GenIds
ObjIds == 1..MaxObjs

\* SessionState
CREATING == "creating"
READY == "ready"
BUSY == "busy"
ERROR == "error"
DESTROYING == "destroying"
DESTROYED == "destroyed"
ActiveStates == {READY, BUSY, CREATING}

\* CommandType values the manager sends
EXECUTE == "execute"
EXECUTE_FILE == "execute_file"
GET_DATA == "get_data"
EXIT == "exit"

VARIABLES
    \* ---- SessionManager ----
    registry,   \* self._sessions: session id -> Session object (0: absent)
    sess,       \* Session objects: session_id, state, current_command_id, is_default, idle
    proc,       \* Session.process: "none" (not started), "alive", "dead"
    cq,         \* Session.command_queue
    rq,         \* Session.result_queue
    stopev,     \* Session.stop_event
    th,         \* the API threads: program counter and locals of the call in progress
    nextObj, nextCmd, nextGen, stop_returns, nCalls,
    started,    \* start() has returned True
    \* ---- the worker process of each Session object ----
    wst,        \* worker_state
    wcur,       \* the EXECUTE command being run
    wflag,      \* cancelled, stop_already_sent
    engine,     \* the engine's dataset: its observation count
    \* ---- one worker process, statement by statement (WorkerSpec) ----
    worker_state,       \* nonlocal worker_state of worker_process
    cancelled,          \* nonlocal cancelled
    stop_already_sent,  \* nonlocal stop_already_sent
    stop_event,         \* the multiprocessing.Event shared with the manager
    command_queue,      \* command ids waiting in the worker's command queue
    result_queue,       \* results the worker has sent
    main_pc,            \* the main thread's position
    mon_pc,             \* the stop monitor thread's position
    mon,                \* the monitor's locals: signal being handled, handle_stop's value
    run,                \* the execution in progress: command, breaks received, engine outcome
    sig,                \* stop signals: how many were raised, and during which execution the last one
    nSent,              \* EXECUTE commands put on the queue
    \* ---- the registry lock and the blocking waits of each API (LockSpec) ----
    lock,               \* self._lock, an RLock: owner thread (0: free) and depth
    lk,                 \* per thread: the API it runs and the lock operations and waits ahead
    \* ---- the streaming wrapper of one stata_run_file tool call (StreamSpec) ----
    stream,             \* the wrapper's position and locals, the task and the log file
    \* ---- one execute / execute_file call and its arguments (ArgsSpec) ----
    call,               \* code, timeout, the locals of the join loop, the command sent
    \* ---- one worker process over its whole life (CycleSpec) ----
    wk,                 \* worker_state, position, queues, engine dataset, preserve copy
    \* ---- the wait loop of one _execute_command call, with a clock (WaitSpec) ----
    wl                  \* position, timeout, clock and deadline in ticks, the worker, the result

mvars == <<registry, sess, proc, cq, rq, stopev, th, nextObj, nextCmd, nextGen,
           stop_returns, nCalls, started, wst, wcur, wflag, engine>>

ToolVars == <<stream, call, wk, wl>>

ProcVars == <<worker_state, cancelled, stop_already_sent, stop_event, command_queue,
              result_queue, main_pc, mon_pc, mon, run, sig, nSent, lock, lk, ToolVars>>

vars == <<mvars, ProcVars>>

NoSession == [session_id |-> "none", state |-> "none", current_command_id |-> "none",
              is_default |-> FALSE, idle |-> FALSE]
NoRes == [status |-> "none", error |-> "", session_id |-> "none", command_id |-> "none",
          output |-> 0]
NoCmd == [type |-> "none", command_id |-> "none", code |-> 0]
Idle == [pc |-> "idle", op |-> "none", sid |-> "none", force |-> FALSE, ctype |-> "none",
         code |-> 0, s |-> 0, cmd |-> "none", mode |-> "none", nid |-> "none", orig |-> 0,
         discarded |-> "none", freed |-> FALSE, made |-> "none", res |-> NoRes]

\* No execution yet: n counts the executions started, breaks lists the engine
\* breaks issued since the last one started (each with the execution during
\* which its stop signal was raised), cancel_sig is the same for the signal
\* that set cancelled, broke is whether the engine saw a break, marker whether
\* the output of stata.run contains "--Break--", at_return how many breaks had
\* been issued when stata.run returned, texts the executions whose own output
\* (a display of that text, a listed string) contained "--Break--".
NoRun == [n |-> 0, breaks |-> <<>>, cancel_sig |-> 0, broke |-> FALSE, marker |-> FALSE,
          at_return |-> 0, texts |-> {}]

\* stream_interval and poll_interval of execute_with_streaming, in seconds.
stream_interval == 5
poll_interval == 2

\* No tool call yet.  now is the time since start_time; last_stream = 0.0 is a
\* time long before start_time, so the first poll always streams; stop_calls
\* counts the calls of stop_execution made for the tool call.
NoStream == [pc |-> "idle", task |-> "none", now |-> 0, last_stream |-> 0 - stream_interval,
             log |-> 0, last_offset |-> 0, polls |-> 0, stop_calls |-> 0]

\* SessionManager.__init__ (nothing registered, no thread in a call); the worker
\* of WorkerSpec has initialized its engine and waits in its command loop.
CoreInit ==
    /\ registry = [i \in SessionIds |-> 0]
    /\ sess = [o \in ObjIds |-> NoSession]
    /\ proc = [o \in ObjIds |-> "none"]
    /\ cq = [o \in ObjIds |-> <<>>]
    /\ rq = [o \in ObjIds |-> <<>>]
    /\ stopev = [o \in ObjIds |-> FALSE]
    /\ th = [t \in Threads |-> Idle]
    /\ nextObj = 0
    /\ nextCmd = 0
    /\ nextGen = 0
    /\ stop_returns = <<>>
    /\ nCalls = 0
    /\ started = FALSE
    /\ wst = [o \in ObjIds |-> "none"]
    /\ wcur = [o \in ObjIds |-> NoCmd]
    /\ wflag = [o \in ObjIds |-> [cancelled |-> FALSE, stop_already_sent |-> FALSE]]
    /\ engine = [o \in ObjIds |-> 0]
    /\ worker_state = "ready"
    /\ cancelled = FALSE
    /\ stop_already_sent = FALSE
    /\ stop_event = FALSE
    /\ command_queue = <<>>
    /\ result_queue = <<>>
    /\ main_pc = "loop"
    /\ mon_pc = "poll"
    /\ mon = [sig |-> 0, ok |-> FALSE, seen |-> 0]
    /\ run = NoRun
    /\ sig = [count |-> 0, during |-> 0, inrun |-> 0, prev |-> 0, idle |-> TRUE]
    /\ nSent = 0
    /\ lock = [owner |-> 0, depth |-> 0]
    /\ lk = [t \in Threads |-> [api |-> "none", ops |-> <<>>]]

\* No execute call whose arguments are followed.
NoCall == [pc |-> "none", op |-> "none", code |-> <<>>,
           timeout |-> [given |-> FALSE, value |-> 0],
           i |-> 0, current_line |-> <<>>, joined_lines |-> <<>>,
           payload |-> [code |-> <<>>, timeout |-> 0], wait |-> 0, deadline |-> 0]

\* The engine's dataset: observations, and whether it has a variable named
\* _stata_mcp_orig_obs.
Datasets == [obs : 0..MaxRows, helper : BOOLEAN]

NoData == [obs |-> 0, helper |-> FALSE]

NoWkCmd == [type |-> "none", id |-> 0, filter |-> "none"]

\* worker_process is entered: worker_state = CREATED, empty queues, an empty
\* dataset, nothing preserved.  before and kept note the dataset and the result
\* count when the current command was taken, and the rows "keep if" left.
NoWorker == [state |-> "created", pc |-> "start", queue |-> <<>>, results |-> <<>>,
             cur |-> NoWkCmd, data |-> NoData, preserved |-> FALSE, saved |-> NoData,
             nSent |-> 0, before |-> [data |-> NoData, nres |-> 0], kept |-> 0]

\* No _execute_command call whose wait is timed.
NoWait == [pc |-> "none", timeout |-> 0, now |-> 0, deadline |-> 0, alive |-> TRUE,
           discarded |-> FALSE, res |-> "none"]

Init ==
    /\ CoreInit
    /\ stream = NoStream
    /\ call = NoCall
    /\ wk = NoWorker
    /\ wl = NoWait

WorkerVars == <<wst, wcur, wflag, engine>>
Counters == <<nextObj, nextCmd, nextGen, stop_returns, nCalls>>

Registered(o) == \E i \in SessionIds : registry[i] = o

\* sum(1 for s in self._sessions.values() if s.state in (READY, BUSY, CREATING))
ActiveCount ==
    Cardinality({i \in SessionIds : registry[i] # 0 /\ sess[registry[i]].state \in ActiveStates})

\* The call of thread t returns: its result stays visible at pc "ret" until the
\* thread takes its next call.
Ret(t, status, err, sessid, cmdid, out) ==
    [th[t] EXCEPT !.pc = "ret", !.code = 0, !.nid = "none",
                  !.res = [status |-> status, error |-> err, session_id |-> sessid,
                           command_id |-> cmdid, output |-> out]]

\* Thread t is not inside a call.
Free(t) == th[t].pc \in {"idle", "ret"}

\* A thread is free to take the next API call.  Threads are interchangeable, so
\* the lowest free one takes it.
MayCall(t) ==
    /\ started
    /\ Free(t)
    /\ \A u \in Threads : u < t => ~Free(u)

(***************************************************************************)
(* create_session and _create_session_internal                             *)
(***************************************************************************)
\* create_session returned to its caller: the API client, or execute's
\* auto-create or spillover branch (which then calls get_session again).
CreateReturn(t, ok, err) ==
    CASE th[t].mode \in {"top", "start"} ->
            IF ok THEN Ret(t, "success", "", th[t].nid, "none", 0)
                  ELSE Ret(t, "failure", err, "", "none", 0)
      [] th[t].mode = "auto" ->
            IF ok THEN [th[t] EXCEPT !.pc = "ex_get2"]
                  ELSE Ret(t, "error", "Failed to auto-create session", "none", "none", 0)
      [] OTHER ->
            IF ok THEN [th[t] EXCEPT !.pc = "ex_spget"]
                  ELSE Ret(t, "error", "Session busy and failed to create new session",
                           "none", "none", 0)

\* A non-default session has been destroyed and no other call is in progress.
SlotFreed ==
    /\ \E o \in ObjIds : sess[o].state = DESTROYED /\ ~sess[o].is_default
    /\ \A u \in Threads : Free(u)

\* A client calls create_session(session_id): session_id none or a client id
\* (freed notes whether the call follows the destruction of a session).
CallCreate(t) ==
    /\ MayCall(t)
    /\ nCalls < MaxCalls
    /\ nCalls' = nCalls + 1
    /\ \E i \in ClientIds \cup {"none", DEFAULT_SESSION_ID} :
          th' = [th EXCEPT ![t] = [Idle EXCEPT !.pc = "cs_check", !.op = "create",
                                               !.mode = "top", !.nid = i,
                                               !.freed = SlotFreed]]
    /\ UNCHANGED <<ProcVars, registry, sess, proc, cq, rq, stopev, nextObj, nextCmd, nextGen, stop_returns,
                   started, WorkerVars>>

\* create_session, the block under self._lock (admission, then "already exists"),
\* and the uuid drawn after it when no id was given.
AdmissionFull == ActiveCount >= max_sessions

\* The admission test that refuses only above the limit.
CreateCheckAboveLimit(t) ==
    /\ th[t].pc = "cs_check"
    /\ IF ActiveCount > max_sessions
          THEN /\ th' = [th EXCEPT ![t] = CreateReturn(t, FALSE, "Maximum sessions reached")]
               /\ UNCHANGED nextGen
          ELSE IF th[t].nid # "none" /\ registry[th[t].nid] # 0
          THEN /\ th' = [th EXCEPT ![t] = CreateReturn(t, TRUE, "")]
               /\ UNCHANGED nextGen
          ELSE IF th[t].nid = "none"
          THEN /\ nextGen < Cardinality(GenIds)
               /\ nextGen' = nextGen + 1
               /\ th' = [th EXCEPT ![t] = [th[t] EXCEPT !.pc = "cs_insert",
                                                        !.nid = GenNames[nextGen + 1]]]
          ELSE /\ th' = [th EXCEPT ![t] = [th[t] EXCEPT !.pc = "cs_insert"]]
               /\ UNCHANGED nextGen
    /\ UNCHANGED <<ProcVars, registry, sess, proc, cq, rq, stopev, nextObj, nextCmd, stop_returns,
                   nCalls, started, WorkerVars>>

CreateCheck(t) ==
    /\ th[t].pc = "cs_check"
    /\ IF AdmissionFull
          THEN /\ th' = [th EXCEPT ![t] = CreateReturn(t, FALSE, "Maximum sessions reached")]
               /\ UNCHANGED nextGen
          ELSE IF th[t].nid # "none" /\ registry[th[t].nid] # 0
          THEN /\ th' = [th EXCEPT ![t] = CreateReturn(t, TRUE, "")]
               /\ UNCHANGED nextGen
          ELSE IF th[t].nid = "none"
          THEN /\ nextGen < Cardinality(GenIds)
               /\ nextGen' = nextGen + 1
               /\ th' = [th EXCEPT ![t] = [th[t] EXCEPT !.pc = "cs_insert",
                                                        !.nid = GenNames[nextGen + 1]]]
          ELSE /\ th' = [th EXCEPT ![t] = [th[t] EXCEPT !.pc = "cs_insert"]]
               /\ UNCHANGED nextGen
    /\ UNCHANGED <<ProcVars, registry, sess, proc, cq, rq, stopev, nextObj, nextCmd, stop_returns,
                   nCalls, started, WorkerVars>>

\* start(): _create_session_internal("default", is_default=True), no admission check.
CallStart(t) ==
    /\ ~started
    /\ \A u \in Threads : th[u].pc = "idle"
    /\ nextObj = 0
    /\ th' = [th EXCEPT ![t] = [Idle EXCEPT !.pc = "cs_insert", !.op = "start",
                                            !.mode = "start", !.nid = DEFAULT_SESSION_ID]]
    /\ UNCHANGED <<ProcVars, registry, sess, proc, cq, rq, stopev, Counters, started, WorkerVars>>

\* _create_session_internal: the Session object with its queues and stop event,
\* and "with self._lock: self._sessions[session_id] = session".
CreateInsert(t) ==
    /\ th[t].pc = "cs_insert"
    /\ nextObj < MaxObjs
    /\ LET o == nextObj + 1 IN
          /\ nextObj' = o
          /\ sess' = [sess EXCEPT ![o] = [session_id |-> th[t].nid, state |-> CREATING,
                                          current_command_id |-> "none",
                                          is_default |-> (th[t].mode = "start"),
                                          idle |-> FALSE]]
          /\ registry' = [registry EXCEPT ![th[t].nid] = o]
          /\ th' = [th EXCEPT ![t] = [th[t] EXCEPT !.pc = "cs_spawn", !.s = o]]
    /\ UNCHANGED <<ProcVars, proc, cq, rq, stopev, nextCmd, nextGen, stop_returns, nCalls, started, WorkerVars>>

\* process.start(); session.process = process
CreateSpawn(t) ==
    /\ th[t].pc = "cs_spawn"
    /\ proc' = [proc EXCEPT ![th[t].s] = "alive"]
    /\ wst' = [wst EXCEPT ![th[t].s] = "created"]
    /\ th' = [th EXCEPT ![t] = [th[t] EXCEPT !.pc = "cs_wait"]]
    /\ UNCHANGED <<ProcVars, registry, sess, cq, rq, stopev, Counters, started, wcur, wflag, engine>>

\* init_result = result_queue.get(timeout=worker_start_timeout): READY on status
\* "ready", otherwise ERROR and _terminate_worker.  (made notes on whose behalf the
\* call first made a session: "top", "start", "auto" or "spill".)
CreateInitResult(t) ==
    /\ th[t].pc = "cs_wait"
    /\ LET o == th[t].s IN
          /\ rq[o] # <<>>
          /\ rq' = [rq EXCEPT ![o] = Tail(rq[o])]
          /\ IF Head(rq[o]).status = "ready"
                THEN /\ sess' = [sess EXCEPT ![o].state = READY]
                     /\ th' = [th EXCEPT ![t] =
                                  [CreateReturn(t, TRUE, "") EXCEPT
                                      !.made = IF @ = "none" THEN th[t].mode ELSE @]]
                     /\ started' = (started \/ th[t].mode = "start")
                     /\ UNCHANGED proc
                ELSE /\ sess' = [sess EXCEPT ![o].state = ERROR]
                     /\ proc' = [proc EXCEPT ![o] = "dead"]
                     /\ th' = [th EXCEPT ![t] = CreateReturn(t, FALSE, "Failed to create worker process")]
                     /\ UNCHANGED started
    /\ UNCHANGED <<ProcVars, registry, cq, stopev, Counters, WorkerVars>>

\* except queue.Empty: the worker did not answer within worker_start_timeout.
CreateInitTimeout(t) ==
    /\ th[t].pc = "cs_wait"
    /\ LET o == th[t].s IN
          /\ rq[o] = <<>>
          /\ sess' = [sess EXCEPT ![o].state = ERROR]
          /\ proc' = [proc EXCEPT ![o] = "dead"]
          /\ th' = [th EXCEPT ![t] = CreateReturn(t, FALSE, "Failed to create worker process")]
    /\ UNCHANGED <<ProcVars, registry, cq, rq, stopev, Counters, started, WorkerVars>>

(***************************************************************************)
(* The worker process (worker_process in stata_worker.py), as the manager  *)
(* sees it through the queues and the stop event.                          *)
(***************************************************************************)
Result(cid, status, err, out) ==
    [command_id |-> cid, status |-> status, error |-> err, output |-> out]

\* A worker that reports the failed initialization and enters its command loop.
WorkerInitStaysUp(o) ==
    /\ proc[o] = "alive"
    /\ wst[o] = "created"
    /\ \/ /\ wst' = [wst EXCEPT ![o] = "ready"]
          /\ rq' = [rq EXCEPT ![o] = Append(rq[o], Result("_init", "ready", "", 0))]
       \/ /\ wst' = [wst EXCEPT ![o] = "ready"]
          /\ rq' = [rq EXCEPT ![o] = Append(rq[o], Result("_init", "init_failed", "Failed to initialize Stata", 0))]
    /\ UNCHANGED <<ProcVars, registry, sess, proc, cq, stopev, th, Counters, started, wcur, wflag, engine>>

\* initialize_stata() and the "_init" result; on failure the worker returns.
WorkerInit(o) ==
    /\ proc[o] = "alive"
    /\ wst[o] = "created"
    /\ \/ /\ wst' = [wst EXCEPT ![o] = "ready"]
          /\ rq' = [rq EXCEPT ![o] = Append(rq[o], Result("_init", "ready", "", 0))]
          /\ UNCHANGED proc
       \/ /\ wst' = [wst EXCEPT ![o] = "init_failed"]
          /\ rq' = [rq EXCEPT ![o] = Append(rq[o], Result("_init", "init_failed", "Failed to initialize Stata", 0))]
          /\ proc' = [proc EXCEPT ![o] = "dead"]
    /\ UNCHANGED <<ProcVars, registry, sess, cq, stopev, th, Counters, started, wcur, wflag, engine>>

\* The command loop takes the next command: EXIT answers "exiting" and ends the
\* process; EXECUTE / EXECUTE_FILE enter execute_stata_code / execute_stata_file
\* (BUSY, stop event cleared, flags reset); GET_DATA is answered at once.
WorkerGet(o) ==
    /\ proc[o] = "alive"
    /\ wst[o] = "ready"
    /\ cq[o] # <<>>
    /\ cq' = [cq EXCEPT ![o] = Tail(cq[o])]
    /\ LET c == Head(cq[o]) IN
          CASE c.type = EXIT ->
                  /\ rq' = [rq EXCEPT ![o] = Append(rq[o], Result(c.command_id, "exiting", "", 0))]
                  /\ wst' = [wst EXCEPT ![o] = "stopped"]
                  /\ proc' = [proc EXCEPT ![o] = "dead"]
                  /\ UNCHANGED <<stopev, wcur, wflag>>
            [] c.type = GET_DATA ->
                  /\ rq' = [rq EXCEPT ![o] =
                               Append(rq[o], Result(c.command_id, "success", "", engine[o]))]
                  /\ UNCHANGED <<proc, stopev, wst, wcur, wflag>>
            [] OTHER ->
                  /\ wst' = [wst EXCEPT ![o] = "busy"]
                  /\ stopev' = [stopev EXCEPT ![o] = FALSE]
                  /\ wflag' = [wflag EXCEPT ![o] = [cancelled |-> FALSE,
                                                    stop_already_sent |-> FALSE]]
                  /\ wcur' = [wcur EXCEPT ![o] = c]
                  /\ UNCHANGED <<proc, rq>>
    /\ UNCHANGED <<ProcVars, registry, sess, th, Counters, started, engine>>

\* What running code c leaves in the engine's dataset: 0 is "count" (read only),
\* k > 0 is "clear; set obs k".
RunCode(old, c) == IF c = 0 THEN old ELSE c

\* One engine shared by all workers: the code's effect lands in every dataset.
WorkerFinishShared(o) ==
    /\ proc[o] = "alive"
    /\ wst[o] = "busy"
    /\ LET e == RunCode(engine[o], wcur[o].code) IN
          /\ engine' = [p \in ObjIds |-> e]
          /\ rq' = [rq EXCEPT ![o] = Append(rq[o], Result(wcur[o].command_id, "success", "", e))]
    /\ wst' = [wst EXCEPT ![o] = "ready"]
    /\ wcur' = [wcur EXCEPT ![o] = NoCmd]
    /\ UNCHANGED <<ProcVars, registry, sess, proc, cq, stopev, th, Counters, started, wflag>>

\* stata.run returns; the result is sent with the command's own id.  A break
\* may land before or after the code took effect.
WorkerFinish(o) ==
    /\ proc[o] = "alive"
    /\ wst[o] = "busy"
    /\ \E applied \in BOOLEAN :
          /\ (~wflag[o].cancelled) => applied
          /\ LET e == IF applied THEN RunCode(engine[o], wcur[o].code) ELSE engine[o] IN
                /\ engine' = [engine EXCEPT ![o] = e]
                /\ rq' = [rq EXCEPT ![o] = Append(rq[o],
                             IF wflag[o].cancelled
                                THEN Result(wcur[o].command_id, "error", "Execution cancelled", e)
                                ELSE Result(wcur[o].command_id, "success", "", e))]
    /\ wst' = [wst EXCEPT ![o] = "ready"]
    /\ wcur' = [wcur EXCEPT ![o] = NoCmd]
    /\ UNCHANGED <<ProcVars, registry, sess, proc, cq, stopev, th, Counters, started, wflag>>

\* stop_monitor_thread: the event is set -> clear it; if BUSY, handle_stop()
\* (one break, cancelled and stop_already_sent set) and a "_stop" result.
WorkerMonitor(o) ==
    /\ proc[o] = "alive"
    /\ stopev[o]
    /\ stopev' = [stopev EXCEPT ![o] = FALSE]
    /\ IF wst[o] = "busy"
          THEN /\ wflag' = [wflag EXCEPT ![o] = [cancelled |-> TRUE,
                                                 stop_already_sent |-> TRUE]]
               /\ rq' = [rq EXCEPT ![o] = Append(rq[o], Result("_stop", "stopped", "", 0))]
          ELSE UNCHANGED <<wflag, rq>>
    /\ UNCHANGED <<ProcVars, registry, sess, proc, cq, th, Counters, started, wst, wcur, engine>>

\* A call holds Session object o and is about to read process.is_alive() or
\* waits for the worker's answer.
Watched(o) ==
    \E t \in Threads : th[t].s = o /\ th[t].pc \in {"ck_eval", "xc_health", "xc_wait"}

\* The worker process dies on its own (engine crash, kill from outside).  Its
\* death shows only through is_alive() and a missing answer, so it is decided
\* when a call is there to see it.
WorkerDie(o) ==
    /\ proc[o] = "alive"
    /\ wst[o] \in {"ready", "busy"}
    /\ Watched(o)
    /\ proc' = [proc EXCEPT ![o] = "dead"]
    /\ UNCHANGED <<ProcVars, registry, sess, cq, rq, stopev, th, Counters, started, WorkerVars>>

(***************************************************************************)
(* get_session, execute, execute_file, get_data                            *)
(***************************************************************************)
\* get_session: None means the default session.
GetSession(sid) == registry[IF sid = "none" THEN DEFAULT_SESSION_ID ELSE sid]

\* A client calls execute / execute_file (session_id None or a client id).
CallExecute(t) ==
    /\ MayCall(t)
    /\ nextCmd < MaxCmds
    /\ nextCmd' = nextCmd + 1
    /\ \E i \in ClientIds \cup {"none"}, ty \in {EXECUTE, EXECUTE_FILE}, c \in 0..MaxObs :
          th' = [th EXCEPT ![t] = [Idle EXCEPT !.pc = "ex_get", !.op = "execute", !.sid = i,
                                               !.ctype = ty, !.code = c,
                                               !.cmd = CmdNames[nextCmd + 1]]]
    /\ UNCHANGED <<ProcVars, registry, sess, proc, cq, rq, stopev, nextObj, nextGen, stop_returns, nCalls,
                   started, WorkerVars>>

\* session = self.get_session(session_id); unknown non-default ids are auto-created.
ExecGet(t) ==
    /\ th[t].pc = "ex_get"
    /\ LET o == GetSession(th[t].sid) IN
          th' = [th EXCEPT ![t] =
                    IF o # 0 THEN [th[t] EXCEPT !.pc = "ex_rd1", !.s = o]
                    ELSE IF th[t].sid \notin {"none", DEFAULT_SESSION_ID}
                    THEN [th[t] EXCEPT !.pc = "cs_check", !.mode = "auto", !.nid = th[t].sid]
                    ELSE Ret(t, "error", "Session not found", "none", "none", 0)]
    /\ UNCHANGED <<ProcVars, registry, sess, proc, cq, rq, stopev, Counters, started, WorkerVars>>

\* session = self.get_session(session_id) after a successful auto-create
ExecGetCreated(t) ==
    /\ th[t].pc = "ex_get2"
    /\ LET o == GetSession(th[t].sid) IN
          th' = [th EXCEPT ![t] =
                    IF o # 0 THEN [th[t] EXCEPT !.pc = "ex_rd1", !.s = o]
                    ELSE Ret(t, "error", "Session creation succeeded but session not found",
                             "none", "none", 0)]
    /\ UNCHANGED <<ProcVars, registry, sess, proc, cq, rq, stopev, Counters, started, WorkerVars>>

\* "if session.state == SessionState.BUSY": spill over to a session with a fresh
\* uuid, through create_session.
ExecReadBusy(t) ==
    /\ th[t].pc = "ex_rd1"
    /\ IF sess[th[t].s].state = BUSY
          THEN /\ nextGen < Cardinality(GenIds)
               /\ nextGen' = nextGen + 1
               /\ th' = [th EXCEPT ![t] = [th[t] EXCEPT !.pc = "cs_check", !.mode = "spill",
                                                        !.nid = GenNames[nextGen + 1],
                                                        !.orig = th[t].s]]
          ELSE /\ th' = [th EXCEPT ![t] = [th[t] EXCEPT !.pc = "ex_rd2"]]
               /\ UNCHANGED nextGen
    /\ UNCHANGED <<ProcVars, registry, sess, proc, cq, rq, stopev, nextObj, nextCmd, stop_returns, nCalls,
                   started, WorkerVars>>

\* The state test that turns away sessions in ERROR only.
ExecReadReadyUnlessError(t) ==
    /\ th[t].pc = "ex_rd2"
    /\ th' = [th EXCEPT ![t] =
                 IF sess[th[t].s].state = ERROR
                    THEN Ret(t, "error", "Session not ready", "none", "none", 0)
                    ELSE [th[t] EXCEPT !.pc = "xc_health"]]
    /\ UNCHANGED <<ProcVars, registry, sess, proc, cq, rq, stopev, Counters, started, WorkerVars>>

\* "elif session.state != SessionState.READY": a second read of the state.
ExecReadReady(t) ==
    /\ th[t].pc = "ex_rd2"
    /\ th' = [th EXCEPT ![t] =
                 IF sess[th[t].s].state # READY
                    THEN Ret(t, "error", "Session not ready", "none", "none", 0)
                    ELSE [th[t] EXCEPT !.pc = "xc_health"]]
    /\ UNCHANGED <<ProcVars, registry, sess, proc, cq, rq, stopev, Counters, started, WorkerVars>>

\* Spillover that goes on with the session the caller named.
ExecGetSpillNamed(t) ==
    /\ th[t].pc = "ex_spget"
    /\ th' = [th EXCEPT ![t] = [th[t] EXCEPT !.pc = "xc_health", !.s = th[t].orig]]
    /\ UNCHANGED <<ProcVars, registry, sess, proc, cq, rq, stopev, Counters, started, WorkerVars>>

\* session = self.get_session(new_session_id) after a successful spillover create
ExecGetSpill(t) ==
    /\ th[t].pc = "ex_spget"
    /\ LET o == registry[th[t].nid] IN
          th' = [th EXCEPT ![t] =
                    IF o # 0 THEN [th[t] EXCEPT !.pc = "xc_health", !.s = o]
                    ELSE Ret(t, "error", "Failed to get newly created session",
                             "none", "none", 0)]
    /\ UNCHANGED <<ProcVars, registry, sess, proc, cq, rq, stopev, Counters, started, WorkerVars>>

\* A client calls get_data.
CallGetData(t) ==
    /\ MayCall(t)
    /\ nextCmd < MaxCmds
    /\ nextCmd' = nextCmd + 1
    /\ \E i \in ClientIds \cup {"none"} :
          th' = [th EXCEPT ![t] = [Idle EXCEPT !.pc = "gd_get", !.op = "get_data", !.sid = i,
                                               !.ctype = GET_DATA,
                                               !.cmd = CmdNames[nextCmd + 1]]]
    /\ UNCHANGED <<ProcVars, registry, sess, proc, cq, rq, stopev, nextObj, nextGen, stop_returns, nCalls,
                   started, WorkerVars>>

GetDataGet(t) ==
    /\ th[t].pc = "gd_get"
    /\ LET o == GetSession(th[t].sid) IN
          th' = [th EXCEPT ![t] =
                    IF o # 0 THEN [th[t] EXCEPT !.pc = "gd_rd", !.s = o]
                    ELSE Ret(t, "error", "Session not found", "none", "none", 0)]
    /\ UNCHANGED <<ProcVars, registry, sess, proc, cq, rq, stopev, Counters, started, WorkerVars>>

GetDataRead(t) ==
    /\ th[t].pc = "gd_rd"
    /\ th' = [th EXCEPT ![t] =
                 IF sess[th[t].s].state # READY
                    THEN Ret(t, "error", "Session not ready", "none", "none", 0)
                    ELSE [th[t] EXCEPT !.pc = "xc_health"]]
    /\ UNCHANGED <<ProcVars, registry, sess, proc, cq, rq, stopev, Counters, started, WorkerVars>>

(***************************************************************************)
(* _execute_command                                                        *)
(***************************************************************************)
\* "if session.process and not session.process.is_alive()"
ExecHealth(t) ==
    /\ th[t].pc = "xc_health"
    /\ LET o == th[t].s IN
          IF proc[o] = "dead"
             THEN /\ sess' = [sess EXCEPT ![o].state = ERROR]
                  /\ th' = [th EXCEPT ![t] = Ret(t, "error", "Worker process died",
                                                 "none", "none", 0)]
             ELSE /\ th' = [th EXCEPT ![t] = [th[t] EXCEPT !.pc = "xc_busy"]]
                  /\ UNCHANGED sess
    /\ UNCHANGED <<ProcVars, registry, proc, cq, rq, stopev, Counters, started, WorkerVars>>

\* The session marked BUSY without recording the command id.
MarkBusyNoId(r, ctype, cmd) ==
    [r EXCEPT !.state = IF ctype \in {EXECUTE, EXECUTE_FILE} THEN BUSY ELSE r.state,
              !.idle = FALSE]

\* with self._lock: state = BUSY (EXECUTE and EXECUTE_FILE only),
\* current_command_id = command_id, last_activity = now
MarkBusy(r, ctype, cmd) ==
    [r EXCEPT !.state = IF ctype \in {EXECUTE, EXECUTE_FILE} THEN BUSY ELSE r.state,
              !.current_command_id = cmd,
              !.idle = FALSE]

ExecMarkBusy(t) ==
    /\ th[t].pc = "xc_busy"
    /\ sess' = [sess EXCEPT ![th[t].s] = MarkBusy(sess[th[t].s], th[t].ctype, th[t].cmd)]
    /\ th' = [th EXCEPT ![t] = [th[t] EXCEPT !.pc = "xc_put"]]
    /\ UNCHANGED <<ProcVars, registry, proc, cq, rq, stopev, Counters, started, WorkerVars>>

\* session.command_queue.put({type, command_id, payload})
ExecSend(t) ==
    /\ th[t].pc = "xc_put"
    /\ cq' = [cq EXCEPT ![th[t].s] = Append(cq[th[t].s],
                 [type |-> th[t].ctype, command_id |-> th[t].cmd, code |-> th[t].code])]
    /\ th' = [th EXCEPT ![t] = [th[t] EXCEPT !.pc = "xc_wait"]]
    /\ UNCHANGED <<ProcVars, registry, sess, proc, rq, stopev, Counters, started, WorkerVars>>

\* The wait loop without the id check: the first entry read is the result.
AcceptsFirst(candidate, command_id) == TRUE

\* "if candidate_id == command_id": the wait loop keeps a candidate or discards it.
Accepts(candidate, command_id) == candidate.command_id = command_id

\* One turn of the wait loop that got a candidate from the result queue
\* ("Discarding stale result ..." is logged when it is not kept).
ExecRead(t) ==
    /\ th[t].pc = "xc_wait"
    /\ LET o == th[t].s IN
          /\ rq[o] # <<>>
          /\ rq' = [rq EXCEPT ![o] = Tail(rq[o])]
          /\ th' = [th EXCEPT ![t] =
                       IF Accepts(Head(rq[o]), th[t].cmd)
                          THEN [th[t] EXCEPT !.pc = "xc_fin",
                                             !.res = [status |-> Head(rq[o]).status,
                                                      error |-> Head(rq[o]).error,
                                                      session_id |-> "none",
                                                      command_id |-> Head(rq[o]).command_id,
                                                      output |-> Head(rq[o]).output]]
                          ELSE [th[t] EXCEPT !.discarded = Head(rq[o]).command_id]]
    /\ UNCHANGED <<ProcVars, registry, sess, proc, cq, stopev, Counters, started, WorkerVars>>

\* with self._lock: state = READY, current_command_id = None
MarkReady(r) == [r EXCEPT !.state = READY, !.current_command_id = "none"]

\* The result returned under the id the caller asked for.
ExecFinishAskedId(t) ==
    /\ th[t].pc = "xc_fin"
    /\ sess' = [sess EXCEPT ![th[t].s] = [MarkReady(sess[th[t].s]) EXCEPT !.idle = FALSE]]
    /\ th' = [th EXCEPT ![t] = [th[t] EXCEPT !.pc = "ret", !.res.session_id = th[t].sid]]
    /\ UNCHANGED <<ProcVars, registry, proc, cq, rq, stopev, Counters, started, WorkerVars>>

\* The matching result was found: mark the session READY and return the result
\* with the session's id (get_data rebuilds a success result without it).
ExecFinish(t) ==
    /\ th[t].pc = "xc_fin"
    /\ sess' = [sess EXCEPT ![th[t].s] = [MarkReady(sess[th[t].s]) EXCEPT !.idle = FALSE]]
    /\ th' = [th EXCEPT ![t] =
                 [th[t] EXCEPT !.pc = "ret",
                               !.res.session_id =
                                   IF th[t].op = "get_data" /\ th[t].res.status = "success"
                                      THEN "none" ELSE sess[th[t].s].session_id]]
    /\ UNCHANGED <<ProcVars, registry, proc, cq, rq, stopev, Counters, started, WorkerVars>>

\* The timeout path without the reset of the session.
ExecTimeoutKeepsState(t) ==
    /\ th[t].pc = "xc_wait"
    /\ th' = [th EXCEPT ![t] = Ret(t, "timeout", "Command timeout",
                                   sess[th[t].s].session_id, "none", 0)]
    /\ UNCHANGED <<ProcVars, registry, sess, proc, cq, rq, stopev, Counters, started, WorkerVars>>

\* The deadline (timeout + 5 s) passed without a matching result: queue.Empty,
\* session forced back to READY, a timeout result synthesized.
ExecTimeout(t) ==
    /\ th[t].pc = "xc_wait"
    /\ sess' = [sess EXCEPT ![th[t].s] = MarkReady(sess[th[t].s])]
    /\ th' = [th EXCEPT ![t] = Ret(t, "timeout", "Command timeout",
                                   sess[th[t].s].session_id, "none", 0)]
    /\ UNCHANGED <<ProcVars, registry, proc, cq, rq, stopev, Counters, started, WorkerVars>>

(***************************************************************************)
(* stop_execution                                                          *)
(***************************************************************************)
\* stop_execution that also terminates the worker and resets the session.
StopExecutionTerminates(sid) ==
    /\ started
    /\ Len(stop_returns) < MaxStops
    /\ GetSession(sid) # 0
    /\ stop_returns' = Append(stop_returns, "stop_sent")
    /\ stopev' = [stopev EXCEPT ![GetSession(sid)] = TRUE]
    /\ proc' = [proc EXCEPT ![GetSession(sid)] = "dead"]
    /\ sess' = [sess EXCEPT ![GetSession(sid)] = MarkReady(@)]
    /\ UNCHANGED <<ProcVars, registry, cq, rq, th, nextObj, nextCmd, nextGen, nCalls,
                   started, WorkerVars>>

\* stop_execution that tests was_busy before it touches the event.
StopExecutionIfBusy(sid) ==
    /\ started
    /\ Len(stop_returns) < MaxStops
    /\ GetSession(sid) # 0
    /\ IF sess[GetSession(sid)].state = BUSY
          THEN /\ stop_returns' = Append(stop_returns, "stop_sent")
               /\ stopev' = [stopev EXCEPT ![GetSession(sid)] = TRUE]
          ELSE /\ stop_returns' = Append(stop_returns, "not_running")
               /\ UNCHANGED stopev
    /\ UNCHANGED <<ProcVars, registry, sess, proc, cq, rq, th, nextObj, nextCmd, nextGen, nCalls,
                   started, WorkerVars>>

\* stop_execution(session_id): get_session, then session.stop_event.set() and
\* "stop_sent" (the event always exists, so the queue fallback is never taken);
\* "Session not found" changes nothing.  It runs on the caller's own thread,
\* beside the calls in th; stop_returns lists the statuses returned so far.
StopExecution(sid) ==
    /\ started
    /\ Len(stop_returns) < MaxStops
    /\ GetSession(sid) # 0
    /\ stop_returns' = Append(stop_returns, "stop_sent")
    /\ stopev' = [stopev EXCEPT ![GetSession(sid)] = TRUE]
    /\ UNCHANGED <<ProcVars, registry, sess, proc, cq, rq, th, nextObj, nextCmd, nextGen, nCalls,
                   started, WorkerVars>>

(***************************************************************************)
(* destroy_session                                                         *)
(***************************************************************************)
CallDestroy(t) ==
    /\ MayCall(t)
    /\ nCalls < MaxCalls
    /\ nCalls' = nCalls + 1
    /\ \E i \in ClientIds \cup {j \in SessionIds : registry[j] # 0}, f \in BOOLEAN :
          th' = [th EXCEPT ![t] = [Idle EXCEPT !.pc = "ds_lock", !.op = "destroy", !.sid = i,
                                               !.force = f]]
    /\ UNCHANGED <<ProcVars, registry, sess, proc, cq, rq, stopev, nextObj, nextCmd, nextGen, stop_returns,
                   started, WorkerVars>>

\* The guard with the force flag inverted.
ProtectedWhenForced(r, force) == r.is_default /\ force

\* "if session.is_default and not force: return False"
Protected(r, force) == r.is_default /\ ~force

\* The first block under self._lock.
DestroyLock(t) ==
    /\ th[t].pc = "ds_lock"
    /\ LET o == registry[th[t].sid] IN
          IF o = 0
             THEN /\ th' = [th EXCEPT ![t] = Ret(t, "failure", "not found", "none", "none", 0)]
                  /\ UNCHANGED sess
          ELSE IF Protected(sess[o], th[t].force)
             THEN /\ th' = [th EXCEPT ![t] = Ret(t, "failure", "Cannot destroy default session",
                                                 "none", "none", 0)]
                  /\ UNCHANGED sess
          ELSE /\ sess' = [sess EXCEPT ![o].state = DESTROYING]
               /\ th' = [th EXCEPT ![t] = [th[t] EXCEPT !.s = o,
                                              !.pc = IF th[t].force THEN "ds_term" ELSE "ds_exit"]]
    /\ UNCHANGED <<ProcVars, registry, proc, cq, rq, stopev, Counters, started, WorkerVars>>

\* Graceful shutdown: put EXIT (command_id "shutdown"), then join up to 5 s.
DestroySendExit(t) ==
    /\ th[t].pc = "ds_exit"
    /\ cq' = [cq EXCEPT ![th[t].s] = Append(cq[th[t].s],
                 [type |-> EXIT, command_id |-> "shutdown", code |-> 0])]
    /\ th' = [th EXCEPT ![t] = [th[t] EXCEPT !.pc = "ds_term"]]
    /\ UNCHANGED <<ProcVars, registry, sess, proc, rq, stopev, Counters, started, WorkerVars>>

\* The join returned (worker gone, or 5 s over); _terminate_worker kills a
\* process that is still alive.
DestroyTerminate(t) ==
    /\ th[t].pc = "ds_term"
    /\ proc' = [proc EXCEPT ![th[t].s] = IF @ = "alive" THEN "dead" ELSE @]
    /\ th' = [th EXCEPT ![t] = [th[t] EXCEPT !.pc = "ds_del"]]
    /\ UNCHANGED <<ProcVars, registry, sess, cq, rq, stopev, Counters, started, WorkerVars>>

\* with self._lock: if session_id in self._sessions: del ...; state = DESTROYED
DestroyRemove(t) ==
    /\ th[t].pc = "ds_del"
    /\ IF registry[th[t].sid] # 0
          THEN /\ registry' = [registry EXCEPT ![th[t].sid] = 0]
               /\ sess' = [sess EXCEPT ![th[t].s].state = DESTROYED]
          ELSE UNCHANGED <<registry, sess>>
    /\ th' = [th EXCEPT ![t] = Ret(t, "success", "", "none", "none", 0)]
    /\ UNCHANGED <<ProcVars, proc, cq, rq, stopev, Counters, started, WorkerVars>>

(***************************************************************************)
(* _check_sessions (the cleanup thread's pass), one session at a time      *)
(***************************************************************************)
\* current_time - last_activity > session_timeout: time passed since the
\* session's last activity.  Only the cleanup pass reads it, so it is decided
\* when a pass is about to look at the session.
Tick(o) ==
    /\ \E t \in Threads : th[t].pc = "ck_eval" /\ th[t].s = o
    /\ ~sess[o].idle
    /\ sess' = [sess EXCEPT ![o].idle = TRUE]
    /\ UNCHANGED <<ProcVars, registry, proc, cq, rq, stopev, th, Counters, started, WorkerVars>>

\* sessions_to_check = list(self._sessions.items()), and the loop reaches o
CallCheck(t) ==
    /\ MayCall(t)
    /\ nCalls < MaxCalls
    /\ nCalls' = nCalls + 1
    /\ \E o \in ObjIds :
          /\ Registered(o)
          /\ th' = [th EXCEPT ![t] = [Idle EXCEPT !.pc = "ck_eval", !.op = "check", !.s = o,
                                                  !.sid = sess[o].session_id]]
    /\ UNCHANGED <<ProcVars, registry, sess, proc, cq, rq, stopev, nextObj, nextCmd, nextGen, stop_returns,
                   started, WorkerVars>>

\* "if session.is_default: continue" (the pass's outcome notes whether the
\* skipped session was idle); idle READY sessions are destroyed; otherwise a
\* dead worker moves the session to ERROR.
Reclaimable(r) == ~r.is_default /\ r.state = READY /\ r.idle

CheckOne(t) ==
    /\ th[t].pc = "ck_eval"
    /\ LET o == th[t].s IN
          IF sess[o].is_default
             THEN /\ th' = [th EXCEPT ![t] = Ret(t, "skipped",
                                                 IF sess[o].idle THEN "idle" ELSE "",
                                                 "none", "none", 0)]
                  /\ UNCHANGED sess
          ELSE IF Reclaimable(sess[o])
             THEN /\ th' = [th EXCEPT ![t] = [th[t] EXCEPT !.pc = "ds_lock"]]
                  /\ UNCHANGED sess
          ELSE IF proc[o] = "dead" /\ sess[o].state \notin {DESTROYED, DESTROYING}
             THEN /\ sess' = [sess EXCEPT ![o].state = ERROR]
                  /\ th' = [th EXCEPT ![t] = Ret(t, "checked", "", "none", "none", 0)]
          ELSE /\ th' = [th EXCEPT ![t] = Ret(t, "checked", "", "none", "none", 0)]
               /\ UNCHANGED sess
    /\ UNCHANGED <<ProcVars, registry, proc, cq, rq, stopev, Counters, started, WorkerVars>>

\* Steps every workload shares: start(), create_session as called by execute,
\* _execute_command, stop_execution and the worker processes.
CommonStep(t) ==
    \/ CallStart(t)
    \/ CreateCheck(t)
    \/ CreateInsert(t)
    \/ CreateSpawn(t)
    \/ CreateInitResult(t)
    \/ CreateInitTimeout(t)

ExecStep(t) ==
    \/ CallExecute(t)
    \/ ExecGet(t)
    \/ ExecGetCreated(t)
    \/ ExecReadBusy(t)
    \/ ExecReadReady(t)
    \/ ExecGetSpill(t)
    \/ CallGetData(t)
    \/ GetDataGet(t)
    \/ GetDataRead(t)
    \/ ExecHealth(t)
    \/ ExecMarkBusy(t)
    \/ ExecSend(t)
    \/ ExecRead(t)
    \/ ExecFinish(t)
    \/ ExecTimeout(t)

LifeStep(t) ==
    \/ CallCreate(t)
    \/ CallDestroy(t)
    \/ DestroyLock(t)
    \/ DestroySendExit(t)
    \/ DestroyTerminate(t)
    \/ DestroyRemove(t)
    \/ CallCheck(t)
    \/ CheckOne(t)

WorkerStep(o) ==
    \/ WorkerInit(o)
    \/ WorkerGet(o)
    \/ WorkerFinish(o)
    \/ WorkerMonitor(o)

\* Clients that execute, read data and stop.
Next ==
    \/ \E t \in Threads : CommonStep(t) \/ ExecStep(t)
    \/ \E i \in ClientIds \cup {"none"} : StopExecution(i)
    \/ \E o \in ObjIds : WorkerStep(o)

Spec == Init /\ [][Next]_vars

\* Clients that create and destroy sessions, and the cleanup thread.
LifeNext ==
    \/ \E t \in Threads : CommonStep(t) \/ LifeStep(t)
    \/ \E o \in ObjIds : WorkerInit(o) \/ WorkerGet(o) \/ WorkerDie(o) \/ Tick(o)

LifeSpec == Init /\ [][LifeNext]_vars

\* execute and execute_file, from the call to its return.
ExecuteStep(t) ==
    \/ CallExecute(t)
    \/ ExecGet(t)
    \/ ExecGetCreated(t)
    \/ ExecReadBusy(t)
    \/ ExecReadReady(t)
    \/ ExecGetSpill(t)
    \/ ExecHealth(t)
    \/ ExecMarkBusy(t)
    \/ ExecSend(t)
    \/ ExecRead(t)
    \/ ExecFinish(t)
    \/ ExecTimeout(t)

\* The cleanup thread's passes (MaxPasses sessions looked at) and the
\* destroy_session they call.
ReclaimStep(t) ==
    \/ CallCheck(t) /\ nCalls < MaxPasses
    \/ CheckOne(t)
    \/ DestroyLock(t)
    \/ DestroySendExit(t)
    \/ DestroyTerminate(t)
    \/ DestroyRemove(t)

\* Clients that execute and read data while the cleanup thread reclaims idle
\* sessions.
ReclaimNext ==
    \/ \E t \in Threads : CommonStep(t) \/ ExecuteStep(t) \/ ReclaimStep(t)
    \/ \E t \in Threads : CallGetData(t) \/ GetDataGet(t) \/ GetDataRead(t)
    \/ \E o \in ObjIds : WorkerInit(o) \/ WorkerGet(o) \/ WorkerFinish(o) \/ Tick(o)

ReclaimSpec == Init /\ [][ReclaimNext]_vars

\* start() on a manager constructed with enabled = False: "if not
\* self.enabled: return True", nothing else.
StartDisabled(t) ==
    /\ ~started
    /\ \A u \in Threads : th[u].pc = "idle"
    /\ nextObj = 0
    /\ started' = TRUE
    /\ th' = [th EXCEPT ![t] = [Ret(t, "success", "", "none", "none", 0) EXCEPT !.op = "start"]]
    /\ UNCHANGED <<ProcVars, registry, sess, proc, cq, rq, stopev, Counters, WorkerVars>>

\* create_session and _create_session_internal as execute calls them.
CreateStep(t) ==
    \/ CreateCheck(t)
    \/ CreateInsert(t)
    \/ CreateSpawn(t)
    \/ CreateInitResult(t)
    \/ CreateInitTimeout(t)

\* Clients that execute on a manager constructed with enabled = False.
DisabledNext ==
    \/ \E t \in Threads : StartDisabled(t) \/ CreateStep(t) \/ ExecuteStep(t)
    \/ \E o \in ObjIds : WorkerInit(o) \/ WorkerGet(o) \/ WorkerFinish(o)

DisabledSpec == Init /\ [][DisabledNext]_vars

(***************************************************************************)
(* One worker process, statement by statement: the main thread in          *)
(* execute_stata_code / execute_stata_file and the stop monitor thread in   *)
(* stop_monitor_thread / handle_stop.  The threads share worker_state,      *)
(* cancelled, stop_already_sent and the stop event; each statement is one   *)
(* step.                                                                    *)
(***************************************************************************)
MgrFrame == UNCHANGED <<mvars, lock, lk, ToolVars>>

\* The manager puts an EXECUTE (or EXECUTE_FILE) command on the command queue.
WSend ==
    /\ nSent < MaxExecs
    /\ nSent' = nSent + 1
    /\ command_queue' = Append(command_queue, CmdNames[nSent + 1])
    /\ UNCHANGED <<worker_state, cancelled, stop_already_sent, stop_event, result_queue,
                   main_pc, mon_pc, mon, run, sig>>
    /\ MgrFrame

\* The manager's stop_execution: session.stop_event.set().  sig.during is the
\* number of the last command started when the signal was raised, sig.inrun
\* that number if the worker was inside stata.run at that moment (else 0), and
\* sig.prev the inrun of the signal before this one; sig.idle says that every
\* signal so far was raised while the worker had no command (none taken, none
\* waiting in its queue).
WStop ==
    /\ sig.count < MaxSignals
    /\ sig' = [count |-> sig.count + 1, during |-> run.n,
               inrun |-> IF main_pc = "run" THEN run.n ELSE 0, prev |-> sig.inrun,
               idle |-> sig.idle /\ main_pc = "loop" /\ command_queue = <<>>]
    /\ stop_event' = TRUE
    /\ UNCHANGED <<worker_state, cancelled, stop_already_sent, command_queue, result_queue,
                   main_pc, mon_pc, mon, run, nSent>>
    /\ MgrFrame

\* cmd_dict = command_queue.get(timeout=1.0), an EXECUTE / EXECUTE_FILE command
MainGet ==
    /\ main_pc = "loop"
    /\ command_queue # <<>>
    /\ command_queue' = Tail(command_queue)
    /\ main_pc' = "set_busy"
    /\ UNCHANGED <<worker_state, cancelled, stop_already_sent, stop_event, result_queue,
                   mon_pc, mon, run, sig, nSent>>
    /\ MgrFrame

\* worker_state = WorkerState.BUSY: the execution starts
MainSetBusy ==
    /\ main_pc = "set_busy"
    /\ worker_state' = "busy"
    /\ run' = [run EXCEPT !.n = @ + 1, !.breaks = <<>>, !.broke = FALSE, !.marker = FALSE,
                          !.at_return = 0]
    /\ main_pc' = "clear"
    /\ UNCHANGED <<cancelled, stop_already_sent, stop_event, command_queue, result_queue,
                   mon_pc, mon, sig, nSent>>
    /\ MgrFrame

\* stop_event.clear()
MainClearEvent ==
    /\ main_pc = "clear"
    /\ stop_event' = FALSE
    /\ main_pc' = "reset_cancelled"
    /\ UNCHANGED <<worker_state, cancelled, stop_already_sent, command_queue, result_queue,
                   mon_pc, mon, run, sig, nSent>>
    /\ MgrFrame

\* cancelled = False
MainResetCancelled ==
    /\ main_pc = "reset_cancelled"
    /\ cancelled' = FALSE
    /\ run' = [run EXCEPT !.cancel_sig = 0]
    /\ main_pc' = "reset_sent"
    /\ UNCHANGED <<worker_state, stop_already_sent, stop_event, command_queue, result_queue,
                   mon_pc, mon, sig, nSent>>
    /\ MgrFrame

\* stop_already_sent = False; then stata.run(...) is entered
MainResetSent ==
    /\ main_pc = "reset_sent"
    /\ stop_already_sent' = FALSE
    /\ main_pc' = "run"
    /\ UNCHANGED <<worker_state, cancelled, stop_event, command_queue, result_queue,
                   mon_pc, mon, run, sig, nSent>>
    /\ MgrFrame

\* stata.run returns (the engine was broken only if a break was issued since
\* the execution started, and then not necessarily; its output contains
\* "--Break--" when it was broken or when the code itself printed that text);
\* worker_state = READY
MainRunReturns ==
    /\ main_pc = "run"
    /\ \E b, text \in BOOLEAN :
          /\ b => run.breaks # <<>>
          /\ run' = [run EXCEPT !.broke = b, !.marker = b \/ text,
                                !.at_return = Len(run.breaks),
                                !.texts = IF text THEN @ \cup {run.n} ELSE @]
    /\ worker_state' = "ready"
    /\ main_pc' = "check"
    /\ UNCHANGED <<cancelled, stop_already_sent, stop_event, command_queue, result_queue,
                   mon_pc, mon, sig, nSent>>
    /\ MgrFrame

\* A cancelled run reported under a status of its own.
OutcomeCancelledStatus(is_cancelled, broke) ==
    IF is_cancelled \/ broke THEN [status |-> "cancelled", error |-> ""]
                             ELSE [status |-> "success", error |-> ""]

\* if cancelled or "--Break--" in output: "Execution cancelled"
Outcome(is_cancelled, broke) ==
    IF is_cancelled \/ broke THEN [status |-> "error", error |-> "Execution cancelled"]
                             ELSE [status |-> "success", error |-> ""]

\* The main loop answering every command under the id of the first one.
MainSendResultFirstId ==
    /\ main_pc = "check"
    /\ result_queue' = Append(result_queue,
           [command_id |-> CmdNames[1], status |-> Outcome(cancelled, run.marker).status,
            error |-> Outcome(cancelled, run.marker).error])
    /\ main_pc' = "loop"
    /\ UNCHANGED <<worker_state, cancelled, stop_already_sent, stop_event, command_queue,
                   mon_pc, mon, run, sig, nSent>>
    /\ MgrFrame

\* The check of cancelled, and the main loop's send_result(command_id=cmd_id, ...)
MainSendResult ==
    /\ main_pc = "check"
    /\ result_queue' = Append(result_queue,
           [command_id |-> CmdNames[run.n], status |-> Outcome(cancelled, run.marker).status,
            error |-> Outcome(cancelled, run.marker).error])
    /\ main_pc' = "loop"
    /\ UNCHANGED <<worker_state, cancelled, stop_already_sent, stop_event, command_queue,
                   mon_pc, mon, run, sig, nSent>>
    /\ MgrFrame

\* stop_monitor_thread: "if stop_event.is_set()" found it set
MonPoll ==
    /\ mon_pc = "poll"
    /\ stop_event
    /\ mon_pc' = "clear"
    /\ UNCHANGED <<worker_state, cancelled, stop_already_sent, stop_event, command_queue,
                   result_queue, main_pc, mon, run, sig, nSent>>
    /\ MgrFrame

\* stop_event.clear(): every signal raised so far is consumed
MonClear ==
    /\ mon_pc = "clear"
    /\ stop_event' = FALSE
    /\ mon' = [mon EXCEPT !.sig = sig.during]
    /\ mon_pc' = "check_busy"
    /\ UNCHANGED <<worker_state, cancelled, stop_already_sent, command_queue, result_queue,
                   main_pc, run, sig, nSent>>
    /\ MgrFrame

\* "if worker_state == WorkerState.BUSY": otherwise ignore the request and sleep
MonCheckBusy ==
    /\ mon_pc = "check_busy"
    /\ mon_pc' = IF worker_state = "busy" THEN "hs_sent" ELSE "poll"
    /\ UNCHANGED <<worker_state, cancelled, stop_already_sent, stop_event, command_queue,
                   result_queue, main_pc, mon, run, sig, nSent>>
    /\ MgrFrame

\* handle_stop: "if stop_already_sent: return True"
HandleStopCheckSent ==
    /\ mon_pc = "hs_sent"
    /\ IF stop_already_sent
          THEN /\ mon' = [mon EXCEPT !.ok = TRUE]
               /\ mon_pc' = "send"
          ELSE /\ mon_pc' = "hs_busy"
               /\ UNCHANGED mon
    /\ UNCHANGED <<worker_state, cancelled, stop_already_sent, stop_event, command_queue,
                   result_queue, main_pc, run, sig, nSent>>
    /\ MgrFrame

\* handle_stop: "if worker_state != WorkerState.BUSY: return False" (mon.seen
\* notes the execution that was found BUSY)
HandleStopCheckBusy ==
    /\ mon_pc = "hs_busy"
    /\ IF worker_state # "busy"
          THEN /\ mon' = [mon EXCEPT !.ok = FALSE]
               /\ mon_pc' = "send"
          ELSE /\ mon_pc' = "hs_cancel"
               /\ mon' = [mon EXCEPT !.seen = run.n]
    /\ UNCHANGED <<worker_state, cancelled, stop_already_sent, stop_event, command_queue,
                   result_queue, main_pc, run, sig, nSent>>
    /\ MgrFrame

\* handle_stop: cancelled = True
HandleStopSetCancelled ==
    /\ mon_pc = "hs_cancel"
    /\ cancelled' = TRUE
    /\ run' = [run EXCEPT !.cancel_sig = mon.sig]
    /\ mon_pc' = "hs_mark"
    /\ UNCHANGED <<worker_state, stop_already_sent, stop_event, command_queue, result_queue,
                   main_pc, mon, sig, nSent>>
    /\ MgrFrame

\* handle_stop: stop_already_sent = True
HandleStopSetSent ==
    /\ mon_pc = "hs_mark"
    /\ stop_already_sent' = TRUE
    /\ mon_pc' = "hs_break"
    /\ UNCHANGED <<worker_state, cancelled, stop_event, command_queue, result_queue,
                   main_pc, mon, run, sig, nSent>>
    /\ MgrFrame

\* handle_stop: stlib.StataSO_SetBreak(); return True
HandleStopSetBreak ==
    /\ mon_pc = "hs_break"
    /\ run' = [run EXCEPT !.breaks = Append(@, mon.sig)]
    /\ mon' = [mon EXCEPT !.ok = TRUE]
    /\ mon_pc' = "send"
    /\ UNCHANGED <<worker_state, cancelled, stop_already_sent, stop_event, command_queue,
                   result_queue, main_pc, sig, nSent>>
    /\ MgrFrame

\* send_result("_stop", "stopped" if handle_stop() else "stop_skipped"), then sleep
MonSend ==
    /\ mon_pc = "send"
    /\ result_queue' = Append(result_queue,
           [command_id |-> "_stop", status |-> IF mon.ok THEN "stopped" ELSE "stop_skipped",
            error |-> ""])
    /\ mon_pc' = "poll"
    /\ UNCHANGED <<worker_state, cancelled, stop_already_sent, stop_event, command_queue,
                   main_pc, mon, run, sig, nSent>>
    /\ MgrFrame

WorkerNext ==
    \/ WSend
    \/ WStop
    \/ MainGet
    \/ MainSetBusy
    \/ MainClearEvent
    \/ MainResetCancelled
    \/ MainResetSent
    \/ MainRunReturns
    \/ MainSendResult
    \/ MonPoll
    \/ MonClear
    \/ MonCheckBusy
    \/ HandleStopCheckSent
    \/ HandleStopCheckBusy
    \/ HandleStopSetCancelled
    \/ HandleStopSetSent
    \/ HandleStopSetBreak
    \/ MonSend

WorkerSpec == Init /\ [][WorkerNext]_vars

(***************************************************************************)
(* LockSpec: the registry lock.  Every API of the manager is followed as    *)
(* the sequence of "with self._lock" entries and exits, of assignments to   *)
(* a session's fields and of blocking IPC waits that one of its paths goes  *)
(* through, in source order.                                                *)
(***************************************************************************)
\* result_queue.get in _execute_command, result_queue.get in
\* _create_session_internal, process.join in destroy_session/_terminate_worker
IpcWaits == {"get_result", "wait_init", "join"}

\* A path followed by one of the paths of the call it makes next.
Then(P, Q) == {p \o q : p \in P, q \in Q}

\* get_session: with self._lock: return self._sessions.get(session_id)
GetSessionOps == {<<"acquire", "release">>}

\* _terminate_worker: join(timeout=2.0) only if the process is still alive
TerminateWorkerOps == {<<>>, <<"join">>}

\* _create_session_internal: insert under the lock, start the process, wait
\* for _init, then session.state = READY, or ERROR with error_message (the
\* assignments stand outside any "with self._lock:"); on a failed or missing
\* _init, _terminate_worker
InternalCreateOps ==
    Then({<<"acquire", "release", "wait_init", "write">>}, {<<>>} \cup TerminateWorkerOps)

\* create_session: the admission block (left by return on refusal or on an
\* existing id), then _create_session_internal
CreateSessionOps ==
    {<<"acquire", "release">>} \cup Then({<<"acquire", "release">>}, InternalCreateOps)

\* destroy_session: first block (left by return when refused, else
\* state = DESTROYING); EXIT and join(5.0) unless forced; _terminate_worker;
\* the removal block (state = DESTROYED)
DestroySessionOps ==
    {<<"acquire", "release">>} \cup
    Then(Then(Then({<<"acquire", "write", "release">>}, {<<>>, <<"join">>}), TerminateWorkerOps),
         {<<"acquire", "write", "release">>})

\* _execute_command with the result-queue read inside the first locked block.
ExecuteCommandLockedWait ==
    {<<"write">>, <<"acquire", "write", "get_result", "release", "acquire", "write", "release">>}

\* _execute_command: dead worker (state = ERROR, no lock taken); or mark BUSY
\* and current_command_id under the lock, put, read the result queue until the
\* deadline, then READY under the lock (result found, timeout) or ERROR under
\* the lock (exception)
ExecuteCommandOps ==
    {<<"write">>, <<"acquire", "write", "release", "get_result", "acquire", "write", "release">>,
                  <<"acquire", "write", "release", "acquire", "write", "release">>}

\* _check_sessions on one session of its snapshot: nothing to do, idle timeout
\* (destroy_session), or dead worker (state = ERROR, error_message)
CheckSessionsOps ==
    Then({<<"acquire", "release">>}, {<<>>, <<"write">>} \cup DestroySessionOps)

\* execute / execute_file: get_session; auto-create or spill-over through
\* create_session and a second get_session; then _execute_command, unless an
\* error is returned first
ExecuteOps ==
    LET found == GetSessionOps \cup Then(Then(GetSessionOps, CreateSessionOps), GetSessionOps) IN
       GetSessionOps \cup Then(GetSessionOps, CreateSessionOps) \cup Then(found, ExecuteCommandOps)

\* get_data: get_session, then _execute_command if the session is READY
GetDataOps == GetSessionOps \cup Then(GetSessionOps, ExecuteCommandOps)

\* stop_execution: get_session, then stop_event.set()
StopExecutionOps == GetSessionOps

ApiOps(api) ==
    CASE api = "create_session" -> CreateSessionOps
      [] api = "destroy_session" -> DestroySessionOps
      [] api = "execute" -> ExecuteOps
      [] api = "get_data" -> GetDataOps
      [] api = "stop_execution" -> StopExecutionOps
      [] api = "_check_sessions" -> CheckSessionsOps

Apis == {"create_session", "destroy_session", "execute", "get_data", "stop_execution",
         "_check_sessions"}

LockFrame ==
    UNCHANGED <<mvars, worker_state, cancelled, stop_already_sent, stop_event, command_queue,
                result_queue, main_pc, mon_pc, mon, run, sig, nSent, ToolVars>>

\* The next lock operation or wait of thread t ("none": not inside a call).
At(t) == IF lk[t].ops = <<>> THEN "none" ELSE Head(lk[t].ops)

\* Thread t moves past its next operation; the call returns after the last.
Advance(t) ==
    lk' = [lk EXCEPT ![t] = IF Len(lk[t].ops) = 1 THEN [api |-> "none", ops |-> <<>>]
                                                   ELSE [lk[t] EXCEPT !.ops = Tail(@)]]

\* A thread calls an API and goes down one of its paths.
LockCall(t) ==
    /\ lk[t].api = "none"
    /\ \E a \in Apis : \E p \in ApiOps(a) \ {<<>>} :
          lk' = [lk EXCEPT ![t] = [api |-> a, ops |-> p]]
    /\ UNCHANGED lock
    /\ LockFrame

\* "with self._lock:" is entered (an RLock: free, or already held by t).
LockAcquire(t) ==
    /\ At(t) = "acquire"
    /\ lock.owner \in {0, t}
    /\ lock' = [owner |-> t, depth |-> lock.depth + 1]
    /\ Advance(t)
    /\ LockFrame

\* The "with self._lock:" block is left.
LockRelease(t) ==
    /\ At(t) = "release"
    /\ lock' = IF lock.depth = 1 THEN [owner |-> 0, depth |-> 0]
                                 ELSE [lock EXCEPT !.depth = @ - 1]
    /\ Advance(t)
    /\ LockFrame

\* Thread t assigns a field of the session (state, current_command_id,
\* error_message).
SessionWrite(t) ==
    /\ At(t) = "write"
    /\ Advance(t)
    /\ UNCHANGED lock
    /\ LockFrame

\* The blocking wait of thread t ends (answer, timeout, process gone).
IpcWaitEnds(t) ==
    /\ At(t) \in IpcWaits
    /\ Advance(t)
    /\ UNCHANGED lock
    /\ LockFrame

LockNext ==
    \E t \in Threads : \/ LockCall(t) \/ LockAcquire(t) \/ LockRelease(t)
                        \/ IpcWaitEnds(t) \/ SessionWrite(t)

LockSpec == Init /\ [][LockNext]_vars

(***************************************************************************)
(* The streaming wrapper of stata_run_file (execute_with_streaming in      *)
(* stata_mcp_server.py): a task runs the tool while the wrapper polls it   *)
(* every poll_interval seconds and forwards new log output every           *)
(* stream_interval seconds.                                                *)
(***************************************************************************)
StreamFrame ==
    UNCHANGED <<mvars, worker_state, cancelled, stop_already_sent, stop_event, command_queue,
                result_queue, main_pc, mon_pc, mon, run, sig, nSent, lock, lk, call, wk, wl>>

\* task = create_task(original_execute(...)); start_time, last_stream = 0.0,
\* last_offset = 0 and the start messages.
StreamStart ==
    /\ stream.pc = "idle"
    /\ stream' = [stream EXCEPT !.pc = "loop", !.task = "running"]
    /\ StreamFrame

\* The engine, run by the task, appends output to the log file.
EngineWrites ==
    /\ stream.task = "running"
    /\ stream.log < MaxLog
    /\ stream' = [stream EXCEPT !.log = @ + 1]
    /\ StreamFrame

\* original_execute returns the tool's result or raises.
TaskEnds ==
    /\ stream.task = "running"
    /\ \E r \in {"done", "failed"} : stream' = [stream EXCEPT !.task = r]
    /\ StreamFrame

\* "if now - last_stream >= stream_interval"
StreamDue(now, last) == now - last >= stream_interval

\* One pass of "while not task.done()": sleep(poll_interval), then, when a
\* stream is due, the progress message and the log file read from last_offset.
StreamPoll ==
    /\ stream.pc = "loop"
    /\ stream.task = "running"
    /\ stream.polls < MaxPolls
    /\ LET now == stream.now + poll_interval IN
          stream' = IF StreamDue(now, stream.last_stream)
                       THEN [stream EXCEPT !.now = now, !.polls = @ + 1, !.last_stream = now,
                                           !.last_offset = stream.log]
                       ELSE [stream EXCEPT !.now = now, !.polls = @ + 1]
    /\ StreamFrame

\* task.done(): "result = await task; return result", or the task's exception
\* logged and raised again.
StreamAwait ==
    /\ stream.pc = "loop"
    /\ stream.task \in {"done", "failed"}
    /\ stream' = [stream EXCEPT !.pc = IF stream.task = "done" THEN "returned" ELSE "raised"]
    /\ StreamFrame

\* The tool call is cancelled while the task is running: CancelledError is
\* raised at the wrapper's await (the sleep or a send); "except Exception" does
\* not catch it, so the wrapper ends there.  The task was not awaited and runs on.
StreamCancel ==
    /\ stream.pc = "loop"
    /\ stream.task = "running"
    /\ stream' = [stream EXCEPT !.pc = "cancelled"]
    /\ StreamFrame

\* What the event loop and the engine do on their own (a cancellation is the
\* client's choice).
StreamRuns == StreamStart \/ EngineWrites \/ TaskEnds \/ StreamPoll \/ StreamAwait

StreamNext == StreamRuns \/ StreamCancel

StreamSpec == Init /\ [][StreamNext]_vars /\ WF_vars(StreamRuns)

(***************************************************************************)
(* execute / execute_file: the arguments on their way to the worker.       *)
(* A line is the sequence of its characters; the code is the sequence of   *)
(* its lines (code.splitlines()), the result of "\n".join(...) likewise.   *)
(***************************************************************************)
\* command_timeout, the default of SessionManager.__init__.
command_timeout == 600

\* Lines a code is made of: empty, plain, with a trailing blank, ending in the
\* marker (with and without blanks around it), the marker alone, two slashes.
Lines == { <<>>,
           <<"a">>,
           <<"a", " ">>,
           <<"a", " ", "/", "/", "/">>,
           <<"a", " ", "/", "/", "/", " ">>,
           <<"/", "/", "/">>,
           <<"a", "/", "/">> }

Codes == UNION {[1..n -> Lines] : n \in 0..MaxLines}

\* timeout: None, or a number of seconds.
Timeouts == {[given |-> FALSE, value |-> 0]}
               \cup {[given |-> TRUE, value |-> v] : v \in (0 - MaxTimeout)..MaxTimeout}

\* str.rstrip(): trailing blanks removed.
RECURSIVE rstrip(_)
rstrip(l) ==
    IF l # <<>> /\ l[Len(l)] = " " THEN rstrip(SubSeq(l, 1, Len(l) - 1)) ELSE l

\* str.endswith('///')
endswith_marker(l) ==
    Len(l) >= 3 /\ l[Len(l)] = "/" /\ l[Len(l) - 1] = "/" /\ l[Len(l) - 2] = "/"

\* "stripped = raw_line.rstrip(); if stripped.endswith('///')"
IsContinuation(raw_line) == endswith_marker(rstrip(raw_line))

\* "stripped[:-3].rstrip() + ' '"
Fragment(raw_line) ==
    LET stripped == rstrip(raw_line) IN
       rstrip(SubSeq(stripped, 1, Len(stripped) - 3)) \o <<" ">>

\* "timeout or self.command_timeout": None and 0 are falsy.
TimeoutOr(timeout) ==
    IF (~timeout.given) \/ timeout.value = 0 THEN command_timeout ELSE timeout.value

\* A call of execute (code, timeout) or execute_file (timeout) on a READY session.
ArgsInit ==
    /\ CoreInit
    /\ stream = NoStream
    /\ wk = NoWorker
    /\ wl = NoWait
    /\ \E op \in {"execute", "execute_file"}, c \in Codes, tm \in Timeouts :
          /\ op = "execute_file" => c = <<>>
          /\ call = [NoCall EXCEPT !.pc = IF op = "execute" THEN "join" ELSE "send",
                                   !.op = op, !.code = c, !.timeout = tm]

ArgsFrame ==
    UNCHANGED <<mvars, worker_state, cancelled, stop_already_sent, stop_event, command_queue,
                result_queue, main_pc, mon_pc, mon, run, sig, nSent, lock, lk, stream, wk, wl>>

\* One pass of "for raw_line in raw_lines".
JoinLine ==
    /\ call.pc = "join"
    /\ call.i < Len(call.code)
    /\ LET raw_line == call.code[call.i + 1] IN
          call' = IF IsContinuation(raw_line)
                     THEN [call EXCEPT !.i = @ + 1,
                                       !.current_line = @ \o Fragment(raw_line)]
                     ELSE [call EXCEPT !.i = @ + 1,
                                       !.joined_lines = Append(@, call.current_line \o raw_line),
                                       !.current_line = <<>>]
    /\ ArgsFrame

\* The end of the loop without "if current_line: joined_lines.append(current_line)".
JoinEndDropsFragment ==
    /\ call.pc = "join"
    /\ call.i = Len(call.code)
    /\ call' = [call EXCEPT !.pc = "send"]
    /\ ArgsFrame

\* "if current_line: joined_lines.append(current_line)" and the return.
JoinEnd ==
    /\ call.pc = "join"
    /\ call.i = Len(call.code)
    /\ call' = [call EXCEPT !.pc = "send",
                            !.joined_lines = IF call.current_line # <<>>
                                                THEN Append(@, call.current_line) ELSE @]
    /\ ArgsFrame

\* _execute_command(session, type, {"code": processed_code, "timeout": timeout or
\* self.command_timeout}, timeout or self.command_timeout), and the put.
ArgsSend ==
    /\ call.pc = "send"
    /\ call' = [call EXCEPT !.pc = "wait",
                            !.payload = [code |-> call.joined_lines,
                                         timeout |-> TimeoutOr(call.timeout)],
                            !.wait = TimeoutOr(call.timeout)]
    /\ ArgsFrame

\* "deadline = start_wait + timeout + 5.0" (as seconds after start_wait)
ArgsDeadline ==
    /\ call.pc = "wait"
    /\ call' = [call EXCEPT !.pc = "done", !.deadline = call.wait + 5]
    /\ ArgsFrame

ArgsNext == JoinLine \/ JoinEnd \/ ArgsSend \/ ArgsDeadline

ArgsSpec == ArgsInit /\ [][ArgsNext]_vars

(***************************************************************************)
(* One worker process over its whole life (worker_process in               *)
(* stata_worker.py): initialize_stata, the command loop, the finally block.*)
(***************************************************************************)
CycleFrame ==
    UNCHANGED <<mvars, worker_state, cancelled, stop_already_sent, stop_event, command_queue,
                result_queue, main_pc, mon_pc, mon, run, sig, nSent, lock, lk, stream, call, wl>>

WkResult(id, status) == [command_id |-> id, status |-> status]

\* Commands the manager sends: EXECUTE, EXECUTE_FILE, GET_DATA without an
\* if_condition, with one the engine accepts, with one it rejects, and EXIT.
WkCommands ==
    {[type |-> ty, filter |-> "none"] : ty \in {EXECUTE, EXECUTE_FILE, GET_DATA, EXIT}}
       \cup {[type |-> GET_DATA, filter |-> f] : f \in {"ok", "bad"}}

\* session.command_queue.put(...)
WkSend ==
    /\ wk.nSent < MaxWkCmds
    /\ \E c \in WkCommands :
          wk' = [wk EXCEPT !.nSent = @ + 1,
                           !.queue = Append(@, [type |-> c.type, id |-> wk.nSent + 1,
                                                filter |-> c.filter])]
    /\ CycleFrame

\* initialize_stata: worker_state = INITIALIZING
WkInitialize ==
    /\ wk.pc = "start"
    /\ wk' = [wk EXCEPT !.state = "initializing", !.pc = "init"]
    /\ CycleFrame

\* initialize_stata ends: READY and the "_init"/"ready" result, or INIT_FAILED,
\* the "_init"/"init_failed" result and "return".
WkInitEnds ==
    /\ wk.pc = "init"
    /\ \E ok \in BOOLEAN :
          wk' = IF ok
                   THEN [wk EXCEPT !.state = "ready", !.pc = "loop",
                                   !.results = Append(@, WkResult("_init", "ready"))]
                   ELSE [wk EXCEPT !.state = "init_failed", !.pc = "finally",
                                   !.results = Append(@, WkResult("_init", "init_failed"))]
    /\ CycleFrame

\* "while worker_state not in (STOPPED, STOPPING)": command_queue.get, and the
\* branch on the command's type.
WkGet ==
    /\ wk.pc = "loop"
    /\ wk.state \notin {"stopped", "stopping"}
    /\ wk.queue # <<>>
    /\ LET c == Head(wk.queue) IN
          wk' = [wk EXCEPT !.queue = Tail(@), !.cur = c,
                           !.before = [data |-> wk.data, nres |-> Len(wk.results)],
                           !.kept = wk.data.obs,
                           !.pc = CASE c.type = EXIT -> "exit"
                                    [] c.type = GET_DATA -> "gd"
                                    [] OTHER -> "exec"]
    /\ CycleFrame

\* EXIT: worker_state = STOPPING, the "exiting" result, break.
WkExit ==
    /\ wk.pc = "exit"
    /\ wk' = [wk EXCEPT !.state = "stopping", !.pc = "finally", !.cur = NoWkCmd,
                        !.results = Append(@, WkResult(wk.cur.id, "exiting"))]
    /\ CycleFrame

\* finally: worker_state = STOPPED
WkFinally ==
    /\ wk.pc = "finally"
    /\ wk' = [wk EXCEPT !.state = "stopped", !.pc = "end"]
    /\ CycleFrame

\* execute_stata_code / execute_stata_file: worker_state = BUSY
WkSetBusy ==
    /\ wk.pc = "exec"
    /\ wk' = [wk EXCEPT !.state = "busy", !.pc = "run"]
    /\ CycleFrame

\* stata.run returns or raises, having left any dataset; worker_state = READY
WkRunReturns ==
    /\ wk.pc = "run"
    /\ \E d \in Datasets, ok \in BOOLEAN :
          wk' = [wk EXCEPT !.state = "ready", !.data = d,
                           !.pc = IF ok THEN "send_ok" ELSE "send_err"]
    /\ CycleFrame

\* send_result(command_id=cmd_id, status="success" if success else "error", ...)
WkSendResult ==
    /\ wk.pc \in {"send_ok", "send_err"}
    /\ wk' = [wk EXCEPT !.pc = "loop", !.cur = NoWkCmd,
                        !.results = Append(@, WkResult(wk.cur.id,
                                        IF wk.pc = "send_ok" THEN "success" ELSE "error"))]
    /\ CycleFrame

\* GET_DATA: total_obs == 0 and the unfiltered case answer at once; with an
\* if_condition the filter sequence starts.
WkDataTotal ==
    /\ wk.pc = "gd"
    /\ wk' = IF wk.data.obs # 0 /\ wk.cur.filter # "none"
                THEN [wk EXCEPT !.pc = "gd_preserve"]
                ELSE [wk EXCEPT !.pc = "loop", !.cur = NoWkCmd,
                                !.results = Append(@, WkResult(wk.cur.id, "success"))]
    /\ CycleFrame

\* stata.run("preserve")
WkPreserve ==
    /\ wk.pc = "gd_preserve"
    /\ wk' = [wk EXCEPT !.preserved = TRUE, !.saved = wk.data, !.pc = "gd_gen"]
    /\ CycleFrame

\* stata.run("quietly gen long _stata_mcp_orig_obs = _n - 1"): raises when the
\* dataset already has a variable of that name.
WkGen ==
    /\ wk.pc = "gd_gen"
    /\ wk' = IF wk.data.helper
                THEN [wk EXCEPT !.pc = "gd_err"]
                ELSE [wk EXCEPT !.data.helper = TRUE, !.pc = "gd_keep"]
    /\ CycleFrame

\* stata.run("quietly keep if ..."), and "keep in 1/max_rows": raises on a
\* condition the engine rejects, else drops the other observations.
WkKeep ==
    /\ wk.pc = "gd_keep"
    /\ IF wk.cur.filter = "bad"
          THEN wk' = [wk EXCEPT !.pc = "gd_err"]
          ELSE \E n \in 0..wk.data.obs :
                  wk' = [wk EXCEPT !.data.obs = n, !.kept = n, !.pc = "gd_frame"]
    /\ CycleFrame

\* df = stata.pdataframe_from_data(), the index column taken out (raises when
\* no frame came back), then stata.run("restore").
WkFrame ==
    /\ wk.pc = "gd_frame"
    /\ \E ok \in BOOLEAN :
          /\ (~ok) => wk.data.obs = 0
          /\ wk' = IF ok THEN [wk EXCEPT !.data = wk.saved, !.preserved = FALSE,
                                         !.pc = "gd_reply"]
                         ELSE [wk EXCEPT !.pc = "gd_err"]
    /\ CycleFrame

\* The filter's error path without its "restore".
WkFilterErrorKeepsData ==
    /\ wk.pc = "gd_err"
    /\ wk' = [wk EXCEPT !.pc = "loop", !.cur = NoWkCmd,
                        !.results = Append(@, WkResult(wk.cur.id, "error"))]
    /\ CycleFrame

\* except Exception as filter_err: restore, the "Filter error" result, continue.
WkFilterError ==
    /\ wk.pc = "gd_err"
    /\ wk' = [wk EXCEPT !.data = wk.saved, !.preserved = FALSE,
                        !.pc = "loop", !.cur = NoWkCmd,
                        !.results = Append(@, WkResult(wk.cur.id, "error"))]
    /\ CycleFrame

\* The success result with the frame's rows.
WkDataReply ==
    /\ wk.pc = "gd_reply"
    /\ wk' = [wk EXCEPT !.pc = "loop", !.cur = NoWkCmd,
                        !.results = Append(@, WkResult(wk.cur.id, "success"))]
    /\ CycleFrame

CycleNext ==
    \/ WkSend
    \/ WkInitialize
    \/ WkInitEnds
    \/ WkGet
    \/ WkExit
    \/ WkFinally
    \/ WkSetBusy
    \/ WkRunReturns
    \/ WkSendResult
    \/ WkDataTotal
    \/ WkPreserve
    \/ WkGen
    \/ WkKeep
    \/ WkFrame
    \/ WkFilterError
    \/ WkDataReply

CycleSpec == Init /\ [][CycleNext]_vars

(***************************************************************************)
(* WaitSpec: the wait loop of _execute_command against a clock             *)
(***************************************************************************)
\* The timeout _execute_command is called with, in seconds: execute and
\* execute_file pass "timeout or self.command_timeout", never 0.
WaitTimeouts == ((0 - 5 - MaxTimeout)..MaxTimeout) \ {0}

WaitInit ==
    /\ CoreInit
    /\ stream = NoStream
    /\ call = NoCall
    /\ wk = NoWorker
    /\ \E tm \in WaitTimeouts, a \in BOOLEAN :
          wl = [NoWait EXCEPT !.pc = "health", !.timeout = tm, !.alive = a]

WaitFrame ==
    UNCHANGED <<mvars, worker_state, cancelled, stop_already_sent, stop_event, command_queue,
                result_queue, main_pc, mon_pc, mon, run, sig, nSent, lock, lk, stream, call, wk>>

\* "if session.process and not session.process.is_alive()": an error result at
\* once; else the session is marked and the command is put on the queue.
WaitHealth ==
    /\ wl.pc = "health"
    /\ wl' = IF wl.alive THEN [wl EXCEPT !.pc = "start"]
                         ELSE [wl EXCEPT !.pc = "ret", !.res = "error"]
    /\ WaitFrame

\* "start_wait = time.time(); deadline = start_wait + timeout + 5.0": the clock
\* counts ticks from start_wait.
WaitStart ==
    /\ wl.pc = "start"
    /\ wl' = [wl EXCEPT !.pc = "loop", !.now = 0, !.deadline = (wl.timeout + 5) * TicksPerSec]
    /\ WaitFrame

\* "while time.time() < deadline": another read, or the loop is left with
\* result None and queue.Empty is raised.
WaitTest ==
    /\ wl.pc = "loop"
    /\ wl' = [wl EXCEPT !.pc = IF wl.now < wl.deadline THEN "get" ELSE "empty"]
    /\ WaitFrame

\* A read that always waits up to one second.
GetTimeoutUnclamped(remaining_timeout) == TicksPerSec

\* "timeout=min(remaining_timeout, 1.0)"
GetTimeout(remaining_timeout) ==
    IF remaining_timeout < TicksPerSec THEN remaining_timeout ELSE TicksPerSec

\* "candidate = session.result_queue.get(timeout=...)": a candidate arrives
\* within the timeout (its id is the command's or another one; a dead worker
\* sends nothing new, what it sent before may still arrive), or queue.Empty
\* is raised when the timeout has passed.  A turn of the loop takes a tick at
\* least.
WaitGet ==
    /\ wl.pc = "get"
    /\ LET limit == GetTimeout(wl.deadline - wl.now) IN
          \/ \E e \in 1..limit, matches \in BOOLEAN :
                wl' = IF matches
                         THEN [wl EXCEPT !.pc = "found", !.now = @ + e]
                         ELSE [wl EXCEPT !.pc = "loop", !.now = @ + e, !.discarded = TRUE]
          \/ wl' = [wl EXCEPT !.pc = "loop", !.now = @ + limit]
    /\ WaitFrame

\* The matching result: the session is marked READY under the lock and the
\* result's status is returned.
WaitFound ==
    /\ wl.pc = "found"
    /\ \E status \in {"success", "error"} : wl' = [wl EXCEPT !.pc = "ret", !.res = status]
    /\ WaitFrame

\* "except queue.Empty": the session is marked READY under the lock and a
\* timeout result is returned.
WaitEmpty ==
    /\ wl.pc = "empty"
    /\ wl' = [wl EXCEPT !.pc = "ret", !.res = "timeout"]
    /\ WaitFrame

\* The worker process dies.
WaitWorkerDies ==
    /\ wl.pc \in {"start", "loop", "get"}
    /\ wl.alive
    /\ wl' = [wl EXCEPT !.alive = FALSE]
    /\ WaitFrame

WaitRuns == WaitHealth \/ WaitStart \/ WaitTest \/ WaitGet \/ WaitFound \/ WaitEmpty

WaitNext == WaitRuns \/ WaitWorkerDies

\* The calling thread keeps running.
WaitSpec == WaitInit /\ [][WaitNext]_vars /\ WF_vars(WaitRuns)

(***************************************************************************)
(* Claims about the worker's stop handling (WorkerSpec)                    *)
(***************************************************************************)
\* The execution in progress: from worker_state = BUSY until stata.run has
\* returned and its outcome is about to be sent.
Executing == main_pc \in {"clear", "reset_cancelled", "reset_sent", "run", "check"}

\* The previous command was answered "Execution cancelled" (and not because
\* of a text of its own output).
PreviousCancelled ==
    \E i \in 1..Len(result_queue) :
        /\ run.n > 1
        /\ (run.n - 1) \notin run.texts
        /\ result_queue[i].command_id = CmdNames[run.n - 1]
        /\ result_queue[i].error = "Execution cancelled"

\* C2: after a stop cancelled a command, a stop signal raised before the next
\* command started causes no engine break during that command and does not
\* mark it cancelled: while the command runs and when its outcome is decided,
\* every break issued since it started, and the signal that set cancelled,
\* were raised during this execution.
C2_StaleStopNeverHitsNextCommand ==
    (PreviousCancelled /\ main_pc \in {"run", "check"}) =>
        /\ \A i \in 1..Len(run.breaks) : run.breaks[i] = run.n
        /\ cancelled => run.cancel_sig = run.n

\* C3: during one EXECUTE / EXECUTE_FILE execution the engine break primitive
\* is invoked at most once.
C3_AtMostOneBreakPerExecution ==
    Executing => Len(run.breaks) <= 1

(***************************************************************************)
(* Claims about _execute_command and routing (Spec)                        *)
(***************************************************************************)
\* C1: a worker result that _execute_command hands back was read from the
\* result queue with the command_id this call sent; entries read with another
\* id (_stop, _init, results of earlier commands) are never returned.
C1_ReturnsOwnResult ==
    \A t \in Threads :
        th[t].res.command_id # "none" => th[t].res.command_id = th[t].cmd

\* A call returns its own result after it read and discarded a "_stop" entry.
C1_ReturnedAfterDiscard ==
    \E t \in Threads :
        /\ th[t].pc = "ret"
        /\ th[t].discarded = "_stop"
        /\ th[t].res.command_id = th[t].cmd
        /\ th[t].res.status = "success"

\* The calls whose command is in flight at Session object o.
InFlight(o) == {t \in Threads : th[t].pc \in {"xc_wait", "xc_fin"} /\ th[t].s = o}

\* C4: at most one command is in flight per session, whatever the interleaving
\* of concurrent execute, execute_file and get_data calls.
C4_AtMostOneInFlight ==
    \A o \in ObjIds : Cardinality(InFlight(o)) <= 1

SpillSteps(t) == th[t].mode = "spill" /\ th'[t] # th[t]

Sent(t, o) ==
    \/ \E i \in 1..Len(cq[o]) : cq[o][i].command_id = th[t].cmd
    \/ wcur[o].command_id = th[t].cmd

\* C7 (as amended): an execute / execute_file that found the named session BUSY
\* never sends its command to that session's worker and never changes that
\* session's record, queues or stop event; when create_session under the
\* generated id succeeds the command runs on the session registered under that
\* id and a result that carries a session_id carries the generated id.
C7_SpilloverLeavesBusySession ==
    /\ [](\A t \in Threads : th[t].mode = "spill" =>
            /\ ~Sent(t, th[t].orig)
            /\ th[t].pc \in {"xc_health", "xc_busy", "xc_put", "xc_wait", "xc_fin"} =>
                  /\ th[t].s # th[t].orig
                  /\ th[t].nid \in GenIds
                  /\ sess[th[t].s].session_id = th[t].nid
            /\ (th[t].pc = "ret" /\ th[t].res.session_id # "none") =>
                  /\ th[t].res.session_id \in GenIds
                  /\ th[t].res.session_id # sess[th[t].orig].session_id)
    /\ [][\A t \in Threads : SpillSteps(t) =>
            /\ sess'[th[t].orig] = sess[th[t].orig]
            /\ cq'[th[t].orig] = cq[th[t].orig]
            /\ rq'[th[t].orig] = rq[th[t].orig]
            /\ stopev'[th[t].orig] = stopev[th[t].orig]]_vars

\* A spilled-over command returned success from the generated session while the
\* session the caller named is still BUSY with its own command.
C7_SpilledWhileBusy ==
    \E t \in Threads :
        /\ th[t].mode = "spill"
        /\ th[t].pc = "ret"
        /\ th[t].res.status = "success"
        /\ th[t].res.session_id \in GenIds
        /\ sess[th[t].orig].state = BUSY
        /\ sess[th[t].orig].current_command_id \notin {"none", th[t].cmd}

\* C7 (as stated): an execute that names a BUSY session is run on a fresh
\* session whose generated id is the result's session_id.
C7_SpilloverAlwaysRuns ==
    \A t \in Threads :
        (th[t].mode = "spill" /\ th[t].pc = "ret") => th[t].res.session_id \in GenIds

\* A step of the worker process of Session object o.
WorkerActs(o) == engine'[o] # engine[o] \/ wst'[o] # wst[o] \/ wcur'[o] # wcur[o]

\* C8: sessions are isolated.  A step of one session's worker changes no other
\* session's engine state, record, queues or stop event; a session's dataset
\* changes only by the code its own worker runs; and the output a worker sends
\* for a command is read from its own engine.
C8_SessionsIsolated ==
    [][\A o \in ObjIds :
          /\ WorkerActs(o) =>
                \A p \in ObjIds \ {o} :
                    /\ engine'[p] = engine[p]
                    /\ sess'[p] = sess[p]
                    /\ cq'[p] = cq[p]
                    /\ rq'[p] = rq[p]
                    /\ stopev'[p] = stopev[p]
          /\ engine'[o] # engine[o] =>
                /\ wst[o] = "busy"
                /\ engine'[o] = RunCode(engine[o], wcur[o].code)
          /\ (Len(rq'[o]) > Len(rq[o]) /\ rq'[o][Len(rq'[o])].command_id \notin {"_init", "_stop"}) =>
                rq'[o][Len(rq'[o])].output = engine'[o]]_vars

\* A command returned the empty dataset of its own session while another
\* session's dataset holds observations.
C8_TwoDatasets ==
    \E t \in Threads :
        /\ th[t].pc = "ret"
        /\ th[t].op = "execute"
        /\ th[t].res.status = "success"
        /\ th[t].res.command_id = th[t].cmd
        /\ th[t].res.output = 0
        /\ engine[th[t].s] = 0
        /\ \E p \in ObjIds \ {th[t].s} : engine[p] > 0

(***************************************************************************)
(* Claims about the registry: admission, the default session, ownership    *)
(* (LifeSpec)                                                              *)
(***************************************************************************)
\* C6: the number of registered sessions in CREATING, READY or BUSY never
\* exceeds max_sessions.
C6_WithinMaxSessions == ActiveCount <= max_sessions

\* Thread t's step removes Session object o from the registry in a
\* destroy_session(force=True) call.
ForcedRemoval(t, o) ==
    /\ th[t].pc = "ds_del"
    /\ th[t].op = "destroy"
    /\ th[t].force
    /\ th[t].s = o
    /\ th'[t].pc = "ret"

\* C9 (as amended): the session that start() registered (is_default) leaves the
\* registry only through destroy_session(force=True); destroy_session without
\* force on it fails and changes nothing; the cleanup pass skips it.
C9_DefaultObjectProtected ==
    [][\A o \in ObjIds : sess[o].is_default =>
          /\ (Registered(o) /\ ~Registered(o)') => \E t \in Threads : ForcedRemoval(t, o)
          /\ \A t \in Threads :
                /\ (th[t].pc = "ds_lock" /\ registry[th[t].sid] = o /\ ~th[t].force
                    /\ th'[t] # th[t]) =>
                      /\ th'[t].pc = "ret"
                      /\ th'[t].res.status = "failure"
                      /\ sess' = sess
                      /\ registry' = registry
                /\ (th[t].pc = "ck_eval" /\ th[t].s = o /\ th'[t] # th[t]) =>
                      /\ th'[t].pc = "ret"
                      /\ sess' = sess
                      /\ registry' = registry]_vars

\* destroy_session("default") without force returned failure, the cleanup pass
\* skipped the long-idle default session, and it is still registered.
C9_DefaultRefusedAndSkipped ==
    /\ registry[DEFAULT_SESSION_ID] # 0
    /\ sess[registry[DEFAULT_SESSION_ID]].is_default
    /\ sess[registry[DEFAULT_SESSION_ID]].idle
    /\ \E t \in Threads :
          /\ th[t].pc = "ret"
          /\ th[t].op = "destroy"
          /\ th[t].sid = DEFAULT_SESSION_ID
          /\ ~th[t].force
          /\ th[t].res.error = "Cannot destroy default session"
    /\ \E t \in Threads :
          /\ th[t].pc = "ret"
          /\ th[t].op = "check"
          /\ th[t].sid = DEFAULT_SESSION_ID
          /\ th[t].res.status = "skipped"
          /\ th[t].res.error = "idle"

\* C9 (as stated): whatever is registered under the id "default" leaves the
\* registry only through destroy_session(force=True); destroy_session without
\* force on it fails and changes nothing; idle reclaim never destroys it.
C9_DefaultIdProtected ==
    [][/\ (registry[DEFAULT_SESSION_ID] # 0 /\ registry'[DEFAULT_SESSION_ID] = 0) =>
              \E t \in Threads : ForcedRemoval(t, registry[DEFAULT_SESSION_ID])
       /\ \A t \in Threads :
              /\ (th[t].pc = "ds_lock" /\ th[t].sid = DEFAULT_SESSION_ID /\ ~th[t].force
                  /\ registry[DEFAULT_SESSION_ID] # 0 /\ th'[t] # th[t]) =>
                    /\ th'[t].pc = "ret"
                    /\ th'[t].res.status = "failure"
                    /\ sess' = sess
              /\ (th[t].pc = "ck_eval" /\ th[t].sid = DEFAULT_SESSION_ID /\ th'[t] # th[t]) =>
                    th'[t].pc = "ret"]_vars

\* C10: every live worker process is owned by exactly one registered session,
\* and the Session object (with its worker) registered under an id is never
\* replaced by another one.
C10_OneWorkerPerSession ==
    /\ [](\A o \in ObjIds :
            proc[o] = "alive" =>
                Cardinality({i \in SessionIds : registry[i] = o}) = 1)
    /\ [][\A i \in SessionIds :
            (registry[i] # 0 /\ registry'[i] # 0) => registry'[i] = registry[i]]_vars

\* C11: at the start of every execution the stop flag is cleared strictly
\* before cancelled and stop_already_sent are reset, and right after the start
\* sequence the flag is clear and both booleans are false.  Stated here for
\* the executions during which no stop signal was raised: the reset of
\* stop_already_sent, the last statement of the sequence, comes after the
\* clear of the flag and leaves all three clear.
C11_CleanAfterStartSequence ==
    [][(main_pc = "reset_sent" /\ main_pc' = "run" /\ sig.during < run.n) =>
          /\ ~stop_event'
          /\ ~cancelled'
          /\ ~stop_already_sent']_vars

\* The _stop results with the given status on the result queue.
StopResults(status) ==
    {i \in 1..Len(result_queue) :
        result_queue[i].command_id = "_stop" /\ result_queue[i].status = status}

\* Two stop signals were raised while the command that ran last was inside
\* stata.run, that command has been answered and the monitor has consumed
\* every signal.
TwoStopsHandled ==
    /\ sig.count = 2
    /\ sig.inrun = run.n
    /\ sig.prev = run.n
    /\ run.n > 0
    /\ main_pc = "loop"
    /\ mon_pc = "poll"
    /\ ~stop_event

\* C12: when the stop flag is set twice during a single execution, the worker
\* emits exactly one _stop result with status "stopped" and one with status
\* "stop_skipped".
C12_OneStoppedOneSkipped ==
    TwoStopsHandled =>
        /\ Cardinality(StopResults("stopped")) = 1
        /\ Cardinality(StopResults("stop_skipped")) = 1

(***************************************************************************)
(* Claims about stop_execution on an idle session (Spec)                   *)
(***************************************************************************)
\* The session named sid exists and has no command in flight.
NoCommandInFlight(sid) ==
    /\ GetSession(sid) # 0
    /\ sess[GetSession(sid)].state = READY
    /\ sess[GetSession(sid)].current_command_id = "none"

\* C13 (as the code has it): a stop issued for a session that has no command
\* in flight is reported as "stop_sent" and sets the session's stop event; it
\* changes neither the registry, nor any session's state or
\* current_command_id, nor any queue, so the session stays READY, the second
\* time as the first.
C13_IdleStopIsSentAnyway ==
    [][\A sid \in ClientIds \cup {"none"} :
          (NoCommandInFlight(sid) /\ StopExecution(sid)) =>
              /\ stop_returns'[Len(stop_returns')] = "stop_sent"
              /\ stopev'[GetSession(sid)]
              /\ sess' = sess
              /\ registry' = registry
              /\ cq' = cq
              /\ rq' = rq]_vars

\* Two stops have been issued and answered "stop_sent" although no execute or
\* get_data call was ever made, and the session they signalled is READY.
C13_TwoStopsOnIdleSession ==
    /\ stop_returns = <<"stop_sent", "stop_sent">>
    /\ nextCmd = 0
    /\ \E i \in ClientIds \cup {"none"} : NoCommandInFlight(i) /\ stopev[GetSession(i)]

\* C13 (as stated): a stop issued for a session that has no command in flight
\* is reported as "not_running" and changes no state.
C13_IdleStopNotRunning ==
    [][\A sid \in ClientIds \cup {"none"} :
          (NoCommandInFlight(sid) /\ StopExecution(sid)) =>
              /\ stop_returns'[Len(stop_returns')] = "not_running"
              /\ stopev' = stopev
              /\ sess' = sess]_vars

(***************************************************************************)
(* Claims about the result of an interrupted command (WorkerSpec)          *)
(***************************************************************************)
\* A stop interrupted the execution whose outcome is about to be sent:
\* handle_stop marked it cancelled or the engine's output holds the break.
Interrupted == main_pc = "check" /\ (cancelled \/ run.broke)

\* The result the main loop has just put on the result queue.
SentResult == result_queue'[Len(result_queue')]

C15_TimeoutLeavesSessionReady ==
    [][\A t \in Threads :
          ExecTimeout(t) =>
              /\ th'[t].pc = "ret"
              /\ th'[t].res.status = "timeout"
              /\ th'[t].res.command_id = "none"
              /\ sess'[th[t].s].state = READY
              /\ sess'[th[t].s].current_command_id = "none"]_vars

\* A call that had sent a command to a BUSY-marked session and had read and
\* discarded a _stop result has returned "timeout", and its session is READY
\* with no current command.
C15_TimedOutAfterDiscard ==
    \E t \in Threads :
        /\ th[t].pc = "ret"
        /\ th[t].op = "execute"
        /\ th[t].res.status = "timeout"
        /\ th[t].discarded = "_stop"
        /\ sess[th[t].s].state = READY
        /\ sess[th[t].s].current_command_id = "none"

(***************************************************************************)
(* Claims about worker death and idle reclaim (LifeSpec)                   *)
(***************************************************************************)
\* The health-check pass of thread t looks at a registered session whose
\* worker process is dead, which is neither being destroyed nor due for idle
\* reclaim.
PassSeesDeadWorker(t) ==
    /\ th[t].pc = "ck_eval"
    /\ Registered(th[t].s)
    /\ proc[th[t].s] = "dead"
    /\ sess[th[t].s].state \notin {DESTROYED, DESTROYING}
    /\ ~Reclaimable(sess[th[t].s])

\* C16: worker death is always detected: the health-check pass that looks at
\* a registered session whose worker is dead, the default session included,
\* leaves that session in ERROR.
C16_PassMarksDeadWorker ==
    [][\A t \in Threads :
          (PassSeesDeadWorker(t) /\ CheckOne(t)) => sess'[th[t].s].state = ERROR]_vars

\* Thread t runs the destroy_session that idle reclaim called, and its first
\* locked block finds the session registered.
ReclaimDestroys(t) ==
    /\ th[t].op = "check"
    /\ th[t].pc = "ds_lock"
    /\ registry[th[t].sid] # 0

\* C17: idle reclaim destroys a session only if it is non-default, READY and
\* idle, and never one that has a command in flight, however the reclaim
\* thread interleaves with execute calls on that session: the session that the
\* reclaim's destroy_session marks DESTROYING is non-default, READY, idle, and
\* has no current command.
C17_ReclaimOnlyIdleSessions ==
    [][\A t \in Threads :
          (ReclaimDestroys(t) /\ DestroyLock(t)) =>
              LET r == sess[registry[th[t].sid]] IN
                 /\ ~r.is_default
                 /\ r.state = READY
                 /\ r.idle
                 /\ r.current_command_id = "none"]_vars

(***************************************************************************)
(* Claims about the registry lock (LockSpec)                               *)
(***************************************************************************)
\* C18: no thread holds the registry lock while it is blocked in an IPC wait
\* (result-queue read, worker-init wait, process join), on every path of
\* create_session, destroy_session, execute, execute_file, get_data and
\* stop_execution; so whoever holds the lock is not waiting on a worker, and a
\* stop_execution gets the lock while a command is outstanding.
C18_NoIpcWaitUnderLock ==
    \A t \in Threads : At(t) \in IpcWaits => lock.owner # t

\* A stop_execution is inside its locked block while an execute waits for the
\* result of the command it sent.
C18_StopLocksDuringWait ==
    \E t, u \in Threads :
        /\ lk[t].api = "execute"
        /\ At(t) = "get_result"
        /\ lk[u].api = "stop_execution"
        /\ lock.owner = u

(***************************************************************************)
(* Claims about admission (LifeSpec)                                       *)
(***************************************************************************)
\* Thread t's create_session has returned a failure that names the limit.
RefusedAtLimit(t) ==
    /\ th[t].pc = "ret"
    /\ th[t].res.status = "failure"
    /\ th[t].res.error = "Maximum sessions reached"

\* C19 (as the code has it): a create_session that finds max_sessions or more
\* sessions in CREATING, READY or BUSY fails with the error naming the limit,
\* spawns no worker and leaves the registry and every session unchanged; one
\* that finds fewer is not refused for the limit; and the destroy_session
\* that marks a counted session DESTROYING lowers that number by one.
C19_AdmissionAtLimit ==
    [][\A t \in Threads :
          /\ (th[t].op = "create" /\ CreateCheck(t)) =>
                IF ActiveCount >= max_sessions
                   THEN /\ RefusedAtLimit(t)'
                        /\ UNCHANGED <<registry, sess, proc, nextObj>>
                   ELSE ~RefusedAtLimit(t)'
          /\ (DestroyLock(t) /\ sess' # sess /\ sess[registry[th[t].sid]].state \in ActiveStates) =>
                ActiveCount' = ActiveCount - 1]_vars

\* A create_session was refused for the limit while exactly max_sessions
\* sessions were registered and active, and no further object was made.
C19_RefusedWhenFull ==
    \E t \in Threads :
        /\ th[t].op = "create"
        /\ RefusedAtLimit(t)
        /\ ActiveCount = max_sessions
        /\ nextObj = max_sessions

\* C19 (as stated, second half): once a non-default session has been
\* destroyed, the next create_session succeeds.
C19_CreateAfterDestroySucceeds ==
    \A t \in Threads :
        (th[t].pc = "ret" /\ th[t].op = "create" /\ th[t].freed) =>
            th[t].res.status = "success"

(***************************************************************************)
(* Claims about auto-creation by execute (Spec)                            *)
(***************************************************************************)
\* Thread t's execute named an unregistered id, made the session for it and
\* has not spilled over to another session.
AutoCreated(t) ==
    /\ th[t].op = "execute"
    /\ th[t].made = "auto"
    /\ th[t].mode = "auto"

\* C20: an execute or execute_file that created the session it named on
\* demand runs its command in it: it does not return before the command was
\* sent, and the command is sent to the session registered under that id.
C20_AutoCreatedRunsCommand ==
    [][\A t \in Threads :
          (AutoCreated(t) /\ th'[t] # th[t]) =>
              /\ th'[t].pc = "ret" => th[t].pc \in {"xc_wait", "xc_fin"}
              /\ ExecSend(t) => registry[th[t].sid] = th[t].s]_vars

(***************************************************************************)
(* Claims about a disabled manager (DisabledSpec)                          *)
(***************************************************************************)
\* C21: on a manager configured with enabled = false, start() is a no-op
\* that returns true and no worker process is ever created; an execute naming
\* a session_id absent from the registry returns an error result that says
\* the session was not found.
C21_DisabledCreatesNoWorker ==
    /\ \A o \in ObjIds : proc[o] = "none"
    /\ \A t \in Threads :
          (th[t].pc = "ret" /\ th[t].op = "execute") =>
              /\ th[t].res.status = "error"
              /\ th[t].res.error = "Session not found"

(***************************************************************************)
(* Claims about sessions that are not ready (ReclaimSpec)                  *)
(***************************************************************************)
NotReadyStates == {ERROR, DESTROYING, DESTROYED, CREATING}

\* Thread t's execute, execute_file or get_data tests the state of the
\* session it named and reads one of the states that are not ready.
ReadsNotReady(t) ==
    /\ th[t].pc \in {"ex_rd2", "gd_rd"}
    /\ sess[th[t].s].state \in NotReadyStates
    /\ ExecReadReady(t) \/ GetDataRead(t)

\* C22: an execute, execute_file or get_data that finds the session it named
\* in ERROR, DESTROYING, DESTROYED or CREATING returns an error result, sends
\* no command to any worker, creates no session and leaves every session's
\* state unchanged.
C22_NotReadyIsRefused ==
    [][\A t \in Threads :
          ReadsNotReady(t) =>
              /\ th'[t].pc = "ret"
              /\ th'[t].res.status = "error"
              /\ th'[t].res.error = "Session not ready"
              /\ \A o \in ObjIds : ~Sent(t, o)'
              /\ UNCHANGED <<cq, registry, sess, proc, nextObj>>]_vars

\* A get_data was turned away by a session that is being destroyed; the
\* session is still DESTROYING and carries no command id.
C22_RefusedWhileDestroying ==
    \E t \in Threads :
        /\ th[t].pc = "ret"
        /\ th[t].op = "get_data"
        /\ th[t].res.error = "Session not ready"
        /\ sess[th[t].s].state = DESTROYING
        /\ sess[th[t].s].current_command_id = "none"

(***************************************************************************)
(* Claims about a failed worker initialization (LifeSpec)                  *)
(***************************************************************************)
\* Thread t's create_session reads the _init result of its worker and the
\* result says init_failed.
ReadsInitFailed(t) ==
    /\ th[t].pc = "cs_wait"
    /\ th[t].mode = "top"
    /\ rq[th[t].s] # <<>>
    /\ Head(rq[th[t].s]).status = "init_failed"
    /\ CreateInitResult(t)

\* The worker of Session object o puts an init_failed result on its queue.
EmitsInitFailed(o) ==
    /\ Len(rq'[o]) = Len(rq[o]) + 1
    /\ rq'[o][Len(rq'[o])].status = "init_failed"

ReservedIds == {"_init", "_stop", "_error", "_fatal"}

IsAnswer(r) == r.command_id \notin ReservedIds

\* The command ids of the results that answer commands, in queue order.
AnswerIds ==
    LET a == SelectSeq(result_queue, IsAnswer) IN [i \in 1..Len(a) |-> a[i].command_id]

\* Commands the worker has dequeued and finished with.
Answered == IF main_pc \in {"loop", "set_busy"} THEN nSent - Len(command_queue) - (IF main_pc = "set_busy" THEN 1 ELSE 0)
                                                ELSE nSent - Len(command_queue) - 1

C25_DestroyedIsGone ==
    [][\A t \in Threads :
          (DestroyRemove(t) /\ th[t].op = "destroy")
             => /\ registry'[th[t].sid] = 0
                /\ proc'[th[t].s] # "alive"
                /\ ~Registered(th[t].s)']_vars

(***************************************************************************)
(* Claims about the default session (Spec)                                 *)
(***************************************************************************)
\* start() returns success: _create_session_internal("default") got "ready".
StartSucceeds(t) == CreateInitResult(t) /\ th[t].mode = "start" /\ started'

\* The registry holds exactly the default session, READY.
OnlyDefaultReady(o) ==
    /\ registry = [i \in SessionIds |-> IF i = DEFAULT_SESSION_ID THEN o ELSE 0]
    /\ sess[o].session_id = DEFAULT_SESSION_ID
    /\ sess[o].is_default
    /\ sess[o].state = READY

\* A request without session_id looks its session up.
ResolvesOmitted(t) == (ExecGet(t) \/ GetDataGet(t)) /\ th[t].sid = "none"

\* A request without session_id that found its session READY (no spillover, no
\* auto-create) returns from _execute_command.
OmittedReturns(t) ==
    /\ th[t].sid = "none"
    /\ th[t].mode = "none"
    /\ th[t].pc \in {"xc_health", "xc_wait", "xc_fin"}
    /\ th'[t].pc = "ret"

\* C26: after a successful start() the registry holds exactly one session,
\* with id default, is_default true and state READY; every request that omits
\* session_id is resolved to the session registered as default, and when that
\* session was READY the result of the request carries session_id = default.
C26_OmittedIdIsDefault ==
    [][\A t \in Threads :
          /\ StartSucceeds(t) => OnlyDefaultReady(th[t].s)'
          /\ ResolvesOmitted(t) => th'[t].s = registry[DEFAULT_SESSION_ID]
          /\ OmittedReturns(t) => th'[t].res.session_id = DEFAULT_SESSION_ID]_vars

\* C26 (amended): as above for the registry and the resolution; the result
\* carries session_id = default when the request is execute or execute_file
\* and the worker was alive at the health check, and a successful get_data
\* result carries no session_id.
C26_ExecuteOmittedIdIsDefault ==
    [][\A t \in Threads :
          /\ StartSucceeds(t) => OnlyDefaultReady(th[t].s)'
          /\ ResolvesOmitted(t) => th'[t].s = registry[DEFAULT_SESSION_ID]
          /\ (OmittedReturns(t) /\ th[t].op = "execute" /\ th[t].pc # "xc_health")
                => th'[t].res.session_id = DEFAULT_SESSION_ID
          /\ (OmittedReturns(t) /\ th[t].op = "get_data" /\ th'[t].res.status = "success")
                => th'[t].res.session_id = "none"]_vars

\* An execute without session_id has returned success from the default session.
C26_DefaultAnsweredOmitted ==
    \E t \in Threads :
       /\ th[t].pc = "ret" /\ th[t].op = "execute" /\ th[t].sid = "none" /\ th[t].mode = "none"
       /\ th[t].res.status = "success"
       /\ th[t].res.session_id = DEFAULT_SESSION_ID
       /\ registry[DEFAULT_SESSION_ID] = th[t].s

(***************************************************************************)
(* Claims about what stop_execution leaves alone (Spec)                    *)
(***************************************************************************)
\* The worker of o returns from a command that a stop interrupted.
InterruptedReturns(o) == WorkerFinish(o) /\ wflag[o].cancelled

\* C27: stop_execution only sets the stop flag of the named session: the
\* worker processes, the registry and every session's state and
\* current_command_id are as before, and no other session's flag changes; and
\* when the interrupted command returns, the worker is alive and ready for
\* the next command.
C27_StopOnlySetsFlag ==
    [][/\ \A i \in ClientIds \cup {"none"} :
             StopExecution(i)
                => /\ proc' = proc
                   /\ registry' = registry
                   /\ sess' = sess
                   /\ stopev' = [stopev EXCEPT ![GetSession(i)] = TRUE]
       /\ \A o \in ObjIds :
             InterruptedReturns(o) => (proc'[o] = "alive" /\ wst'[o] = "ready")]_vars

\* A command was interrupted by a stop and returned as cancelled, and a later
\* execute in the same session succeeded.
C27_RunsAfterInterrupt ==
    \E t, u \in Threads :
       /\ th[t].pc = "ret" /\ th[t].res.error = "Execution cancelled"
       /\ th[t].cmd = CmdNames[1]
       /\ th[u].pc = "ret" /\ th[u].op = "execute" /\ th[u].res.status = "success"
       /\ th[u].cmd = CmdNames[2]
       /\ th[u].s = th[t].s
       /\ proc[th[t].s] = "alive"
       /\ sess[th[t].s].state = READY
       /\ Len(stop_returns) = 1

(***************************************************************************)
(* Claims about the streaming wrapper (StreamSpec)                         *)
(***************************************************************************)
\* C28: when a tool call under the streaming wrapper is cancelled while its
\* execute_file is outstanding, stop_execution is eventually called for the
\* executing session.
C28_CancelReachesStop ==
    (stream.pc = "cancelled") ~> (stream.stop_calls > 0)

(***************************************************************************)
(* Claims about the arguments of execute (ArgsSpec)                        *)
(***************************************************************************)
RECURSIVE Concat(_)
Concat(ls) == IF ls = <<>> THEN <<>> ELSE Head(ls) \o Concat(Tail(ls))

\* Positions of the lines of code that do not end in the marker.
Closers(code) == {i \in 1..Len(code) : ~IsContinuation(code[i])}

\* The first line of the run that the line at position e closes.
RunStart(code, e) ==
    IF \E c \in Closers(code) : c < e
       THEN 1 + CHOOSE c \in Closers(code) : c < e /\ \A d \in Closers(code) : d < e => d <= c
       ELSE 1

\* The lines from..to, each without its marker, as one line.
Joined(code, from, to) == Concat([i \in 1..(to + 1 - from) |-> Fragment(code[from + i - 1])])

\* The k-th closing line's position.
Closer(code, k) ==
    CHOOSE e \in Closers(code) : Cardinality({c \in Closers(code) : c <= e}) = k

\* C29: every run of consecutive lines ending in the marker is joined with the
\* line that follows it into one output line, the markers removed; all other
\* lines are kept unchanged and in order; when the last line ends in the
\* marker, the trailing fragment is a final line of its own; and execute
\* sends the result of this as the code of its command.
C29_ContinuationsJoined ==
    (call.op = "execute" /\ call.pc \in {"wait", "done"}) =>
       LET code == call.code
           out == call.payload.code
           n == Cardinality(Closers(code))
           open == code # <<>> /\ IsContinuation(code[Len(code)])
       IN /\ Len(out) = n + (IF open THEN 1 ELSE 0)
          /\ \A k \in 1..n :
                LET e == Closer(code, k) IN
                   out[k] = Joined(code, RunStart(code, e), e - 1) \o code[e]
          /\ open => out[n + 1] = Joined(code, RunStart(code, Len(code) + 1), Len(code))

\* A code of three lines: a continuation and the line closing it, then a
\* continuation that ends the code; two lines were sent.
C29_JoinedAndTrailing ==
    /\ call.op = "execute" /\ call.pc = "done"
    /\ Len(call.code) = 3
    /\ IsContinuation(call.code[1])
    /\ ~IsContinuation(call.code[2])
    /\ IsContinuation(call.code[3])
    /\ Len(call.payload.code) = 2
    /\ call.payload.code[1] = <<"a", " ", "a">>

\* C30: a timeout of 0 or below is treated as no timeout: the command carries
\* command_timeout and the deadline of the wait is computed from it.
C30_NonPositiveIsDefault ==
    (call.pc = "done" /\ ((~call.timeout.given) \/ call.timeout.value <= 0)) =>
       /\ call.payload.timeout = command_timeout
       /\ call.deadline = command_timeout + 5

(***************************************************************************)
(* Claims about the worker's life cycle and GET_DATA (CycleSpec)           *)
(***************************************************************************)
\* The state changes the worker may make (a worker whose initialization failed
\* ends in STOPPED as well, through the finally block).
WorkerEdges ==
    { <<"created", "initializing">>, <<"initializing", "ready">>,
      <<"initializing", "init_failed">>, <<"ready", "busy">>, <<"busy", "ready">>,
      <<"ready", "stopping">>, <<"busy", "stopping">>, <<"stopping", "stopped">>,
      <<"init_failed", "stopped">> }

\* The engine is working on the current command.
EngineRuns ==
    wk.pc \in {"run", "gd", "gd_preserve", "gd_gen", "gd_keep", "gd_frame", "gd_err"}

\* C31: the worker's state changes only along the listed edges, READY to BUSY
\* being taken when an EXECUTE, EXECUTE_FILE or GET_DATA starts; after EXIT no
\* further command is taken; and whenever the state is READY no command is
\* executing.
C31_StateEdges ==
    /\ [][/\ wk.state' # wk.state => <<wk.state, wk.state'>> \in WorkerEdges
          /\ (WkGet /\ wk'.cur.type # EXIT) => wk.state \notin {"stopping", "stopped"}]_vars
    /\ [](wk.state = "ready" => ~EngineRuns)

C32_IdleStopsLeaveNothing ==
    (sig.count > 0 /\ sig.idle) =>
        /\ \A i \in 1..Len(result_queue) :
              /\ result_queue[i].command_id # "_stop"
              /\ result_queue[i].error = "Execution cancelled" =>
                    \E n \in run.texts : result_queue[i].command_id = CmdNames[n]
        /\ run.breaks = <<>>
        /\ ~cancelled

\* C34: every write to a registered session's state, current_command_id or
\* error_message is made while the writing thread holds the registry lock, on
\* every path (creation and init failure, the worker-death check of
\* _execute_command, the health check, destroy_session, command completion).
C34_WritesUnderLock ==
    \A t \in Threads : At(t) = "write" => lock.owner = t

(***************************************************************************)
(* Claims about the wait loop (WaitSpec)                                   *)
(***************************************************************************)
\* The results _execute_command returns.
StructuredStatus == {"success", "error", "timeout"}

\* C35: a call that reaches _execute_command returns a structured result,
\* whether the worker answers, never replies, dies during the command or keeps
\* sending results with other ids; the wait loop never runs past its deadline
\* (a deadline already passed at start_wait ends it at once).
C35_WaitEndsByDeadline ==
    /\ [](wl.pc \in {"loop", "get", "found", "empty", "ret"} =>
             wl.now <= (IF wl.deadline < 0 THEN 0 ELSE wl.deadline))
    /\ <>(wl.pc = "ret" /\ wl.res \in StructuredStatus)

\* The worker died during the command, results with other ids were discarded,
\* and the call returned a timeout exactly at its deadline.
C35_TimedOutAtDeadline ==
    /\ wl.pc = "ret"
    /\ wl.res = "timeout"
    /\ ~wl.alive
    /\ wl.discarded
    /\ wl.deadline > TicksPerSec
    /\ wl.now = wl.deadline

(***************************************************************************)
(* Claims about the moment of the engine break (WorkerSpec)                *)
(***************************************************************************)
\* C36: the engine break primitive is invoked only while the worker executes
\* a command: when StataSO_SetBreak is called, worker_state is BUSY and the
\* execution that handle_stop found BUSY has not finished.
C36_BreakOnlyWhileBusy ==
    [][HandleStopSetBreak => (worker_state = "busy" /\ run.n = mon.seen)]_vars

(***************************************************************************)
(* Claims about waiters sharing a result queue (Spec)                      *)
(***************************************************************************)
\* C37: a waiter in _execute_command never discards a result whose command_id
\* belongs to another call that is still waiting on the same session's result
\* queue; what it discards is an out-of-band entry or the result of a command
\* whose caller has returned.
C37_NeverDiscardsWaitersResult ==
    [][\A t \in Threads :
          (ExecRead(t) /\ ~Accepts(Head(rq[th[t].s]), th[t].cmd)) =>
              \A u \in Threads \ {t} :
                  ~(/\ th[u].pc = "xc_wait"
                    /\ th[u].s = th[t].s
                    /\ th[u].cmd = Head(rq[th[t].s]).command_id)]_vars

\* C38: an EXECUTE or EXECUTE_FILE is answered "Execution cancelled" only if
\* the stop monitor issued an engine break while stata.run was running it; a
\* command during which no stop was handled is never answered so, whatever
\* its output contains.
C38_CancelledOnlyAfterBreak ==
    [][MainSendResult =>
          (SentResult.error = "Execution cancelled" => run.at_return > 0)]_vars

(***************************************************************************)
(* Claims about destroy_session beside a command (ReclaimSpec)             *)
(***************************************************************************)
\* C39: once destroy_session has moved a session to DESTROYING, its state
\* never returns to READY or BUSY and no command other than the EXIT of the
\* destroy is put on its worker's queue, also when an _execute_command call on
\* that session completes or times out while the destroy is in progress.
C39_DestroyingIsFinal ==
    [][\A o \in ObjIds :
          sess[o].state \in {DESTROYING, DESTROYED} =>
              /\ sess'[o].state \notin {READY, BUSY}
              /\ Len(cq'[o]) > Len(cq[o]) => cq'[o][Len(cq'[o])].type = EXIT]_vars

(***************************************************************************)
(* Claims about create_session's result (LifeSpec)                         *)
(***************************************************************************)
\* C40: whenever create_session returns success with session_id X, session X
\* is in the registry with a live worker process and state READY or BUSY (in
\* particular not ERROR and not DESTROYING).
C40_CreatedIsUsable ==
    [][\A t \in Threads :
          (/\ th[t].op = "create"
           /\ th[t].pc # "ret"
           /\ th'[t].pc = "ret"
           /\ th'[t].res.status = "success") =>
              LET o == registry'[th'[t].res.session_id] IN
                 /\ o # 0
                 /\ proc'[o] = "alive"
                 /\ sess'[o].state \in {READY, BUSY}]_vars
=============================================================================
